---- MODULE Spec2Model ----
(***************************************************************************)
(* A model of the Wunderbaum tree control (src/unnamed/part_000: the       *)
(* WunderbaumNode and Wunderbaum classes) and of its filter extension      *)
(* (src/src/wb_ext_filter.ts: FilterExtension).                            *)
(*                                                                         *)
(* Nodes live in a heap `nodes` (a sequence of node objects addressed by   *)
(* their creation index, the root being object 1); `tree` holds the fields *)
(* of the Wunderbaum object, of its FilterExtension and of the DOM         *)
(* elements it owns.  Every handler is an operator from a world            *)
(* [n |-> heap, t |-> tree, thrown |-> exception] to the world it leaves   *)
(* behind, so that handlers that call each other compose as in the code.   *)
(***************************************************************************)
EXTENDS Integers, Sequences, FiniteSets, TLC

VARIABLES
    nodes,  \* heap of WunderbaumNode objects, nodes[1] is tree.root
    tree,   \* fields of Wunderbaum, FilterExtension and the owned DOM
    last,   \* the last call made by the host: its inputs and its outcome
    steps   \* the number of calls made so far

vars == <<nodes, tree, last, steps>>

----------------------------------------------------------------------------
(* Bounds of the model *)

\* no more than this many node objects besides the root
MaxNodes == 4

\* no more than this many calls are made on a tree
MaxOps == 4

\* largest row index a host passes to renumber() as startIdx / endIdx
MaxIdx == 2

----------------------------------------------------------------------------
(* Values *)

\* `undefined` / a deleted property is the empty tuple, a set property <<v>>
Absent == <<>>
Some(v) == <<v>>
IsSet(o) == Len(o) > 0
Val(o) == o[1]

\* the `null` node reference
NoNode == 0

\* tree.root
Root == 1

ROW_HEIGHT == 16

RENDER_PREFETCH == 5

\* no exception pending
NoError == "none"

NodeIds(N) == 1..Len(N)

\* JavaScript truthiness of an optional boolean / number property
TruthyFlag(o) == IsSet(o) /\ Val(o) = TRUE
TruthyNum(o) == IsSet(o) /\ Val(o) # 0

----------------------------------------------------------------------------
(* WunderbaumNode *)

\* a child record of a data source: {title, children?}
Leaf(t) == [title |-> t, hasChildren |-> FALSE, children |-> <<>>]
Folder(t, kids) == [title |-> t, hasChildren |-> TRUE, children |-> kids]

\* new WunderbaumNode(tree, parent, data)
NewNode(parent, d) ==
    [ parent             |-> parent,
      childrenNull       |-> TRUE,
      children           |-> <<>>,
      title              |-> IF d.title = <<>> THEN <<"?">> ELSE d.title,
      lazy               |-> FALSE,
      expanded           |-> FALSE,
      selected           |-> FALSE,
      match              |-> Some(FALSE),
      subMatchCount      |-> Some(0),
      titleWithHighlight |-> Absent,
      filterAutoExpanded |-> FALSE,
      rowIdx             |-> 0,
      rowElem            |-> Absent ]

\* the root created by the Wunderbaum constructor
RootNode == NewNode(NoNode, [title |-> <<>>])

\* node.addChild(child) with `before` undefined
addChild(N, p, c) ==
    [N EXCEPT ![p].childrenNull = FALSE,
              ![p].children = IF N[p].childrenNull THEN <<c>>
                              ELSE Append(N[p].children, c)]

\* `node.children` is truthy: any array, also an empty one
HasChildArray(N, n) == ~N[n].childrenNull

\* `node.children && node.children.length`
HasChildNodes(N, n) == ~N[n].childrenNull /\ Len(N[n].children) > 0

\* node.hasChildren(): "true", "false" or "undefined"
hasChildren(N, n) ==
    IF N[n].lazy
    THEN IF N[n].childrenNull THEN "undefined"
         ELSE IF Len(N[n].children) = 0 THEN "false"
         ELSE "true"
    ELSE IF HasChildNodes(N, n) THEN "true" ELSE "false"

\* node.getLevel()
RECURSIVE getLevel(_, _)
getLevel(N, n) ==
    IF N[n].parent = NoNode THEN 0 ELSE 1 + getLevel(N, N[n].parent)

\* Array.prototype.indexOf, 0-based, -1 when absent
indexOf(s, x) ==
    IF \E i \in 1..Len(s) : s[i] = x
    THEN (CHOOSE i \in 1..Len(s) : s[i] = x /\ \A j \in 1..(i - 1) : s[j] # x) - 1
    ELSE 0 - 1

----------------------------------------------------------------------------
(* Traversals.  A callback is a table from node to what it returns there:  *)
(* "false", "skip", "true" or "undef".  A traversal yields the nodes the   *)
(* callback was called on, in order, and the value the traversal returns.  *)

RECURSIVE visit(_, _, _, _)
RECURSIVE visitChildren(_, _, _, _, _, _)

\* WunderbaumNode.visit(callback, includeSelf)
visit(N, cb, n, includeSelf) ==
    LET selfRes == IF includeSelf THEN cb[n] ELSE "true"
        selfSeq == IF includeSelf THEN <<n>> ELSE <<>>
    IN  IF includeSelf /\ selfRes \in {"false", "skip"}
        THEN [seq |-> selfSeq, res |-> selfRes]
        ELSE IF HasChildArray(N, n)
        THEN visitChildren(N, cb, N[n].children, 1, selfSeq, selfRes)
        ELSE [seq |-> selfSeq, res |-> selfRes]

\* the loop over `children` in WunderbaumNode.visit
visitChildren(N, cb, ch, i, acc, res) ==
    IF i > Len(ch) THEN [seq |-> acc, res |-> res]
    ELSE LET r == visit(N, cb, ch[i], TRUE)
         IN  IF r.res = "false"
             THEN [seq |-> acc \o r.seq, res |-> "false"]
             ELSE visitChildren(N, cb, ch, i + 1, acc \o r.seq, r.res)

\* Wunderbaum.visit(callback)
treeVisit(N, cb) == visit(N, cb, Root, FALSE)

RECURSIVE visitParentsUp(_, _, _, _)
\* the `while (p)` loop of WunderbaumNode.visitParents
visitParentsUp(N, cb, p, acc) ==
    IF p = NoNode THEN [seq |-> acc, res |-> "true"]
    ELSE IF cb[p] = "false" THEN [seq |-> Append(acc, p), res |-> "false"]
    ELSE visitParentsUp(N, cb, N[p].parent, Append(acc, p))

\* WunderbaumNode.visitParents(callback, includeSelf)
visitParents(N, cb, n, includeSelf) ==
    IF includeSelf /\ cb[n] = "false"
    THEN [seq |-> <<n>>, res |-> "false"]
    ELSE visitParentsUp(N, cb, N[n].parent, IF includeSelf THEN <<n>> ELSE <<>>)

RECURSIVE visitSiblingsFrom(_, _, _, _, _, _)
\* the `for` loop of WunderbaumNode.visitSiblings over parent.children
visitSiblingsFrom(cb, ac, i, self, includeSelf, acc) ==
    IF i > Len(ac) THEN [seq |-> acc, res |-> "true"]
    ELSE IF includeSelf \/ ac[i] # self
    THEN IF cb[ac[i]] = "false"
         THEN [seq |-> Append(acc, ac[i]), res |-> "false"]
         ELSE visitSiblingsFrom(cb, ac, i + 1, self, includeSelf, Append(acc, ac[i]))
    ELSE visitSiblingsFrom(cb, ac, i + 1, self, includeSelf, acc)

\* WunderbaumNode.visitSiblings(callback, includeSelf)
visitSiblings(N, cb, n, includeSelf) ==
    visitSiblingsFrom(cb, N[N[n].parent].children, 1, n, includeSelf, <<>>)

----------------------------------------------------------------------------
(* Row traversal *)

\* tree.enableFilter as read by visitRows: rows are pruned by the filter
\* exactly while a filter is applied in "hide" mode
enableFilter(T) == T.filterMode = "hide"

\* `!node.match && !node.subMatchCount`
FilterPruned(N, n) ==
    ~TruthyFlag(N[n].match) /\ ~TruthyNum(N[n].subMatchCount)

\* options of visitRows: start node (NoNode: the default), includeSelf,
\* includeHidden, reverse
RowOpts(start, includeSelf, includeHidden, reverse) ==
    [start |-> start, includeSelf |-> includeSelf,
     includeHidden |-> includeHidden, reverse |-> reverse]

DefaultRowOpts == RowOpts(NoNode, TRUE, FALSE, FALSE)

\* mutant: the inner callback forgets to prune the children of collapsed nodes
rowsInnerNoPrune(N, user, includeHidden, checkFilter) ==
    [n \in NodeIds(N) |->
        IF checkFilter /\ FilterPruned(N, n) THEN "skip"
        ELSE IF user[n] = "false" THEN "false"
        ELSE "undef"]

\* what the function handed to node.visit() inside visitRows returns at n
rowsInner(N, user, includeHidden, checkFilter) ==
    [n \in NodeIds(N) |->
        IF checkFilter /\ FilterPruned(N, n) THEN "skip"
        ELSE IF user[n] = "false" THEN "false"
        ELSE IF ~includeHidden /\ HasChildArray(N, n) /\ ~N[n].expanded
        THEN "skip"
        ELSE "undef"]

RECURSIVE rowsFor(_, _, _, _, _, _, _, _)
\* the `for` loop over the siblings in visitRows, from index i (1-based)
rowsFor(N, user, includeHidden, checkFilter, siblings, i, skipFirst, acc) ==
    IF i > Len(siblings) THEN [seq |-> acc, res |-> "go", skipFirst |-> skipFirst]
    ELSE
    LET node == siblings[i]
    IN  IF checkFilter /\ FilterPruned(N, node)
        THEN rowsFor(N, user, includeHidden, checkFilter, siblings, i + 1,
                     skipFirst, acc)
        ELSE IF ~skipFirst /\ user[node] = "false"
        THEN [seq |-> Append(acc, node), res |-> "false", skipFirst |-> skipFirst]
        ELSE
        LET acc1 == IF skipFirst THEN acc ELSE Append(acc, node)
        IN  IF HasChildNodes(N, node) /\ (includeHidden \/ N[node].expanded)
            THEN LET r == visit(N, rowsInner(N, user, includeHidden, checkFilter),
                                node, FALSE)
                     called == SelectSeq(r.seq,
                                 LAMBDA n : ~(checkFilter /\ FilterPruned(N, n)))
                 IN  IF r.res = "false"
                     THEN [seq |-> acc1 \o called, res |-> "false",
                           skipFirst |-> FALSE]
                     ELSE rowsFor(N, user, includeHidden, checkFilter, siblings,
                                  i + 1, FALSE, acc1 \o called)
            ELSE rowsFor(N, user, includeHidden, checkFilter, siblings, i + 1,
                         FALSE, acc1)

RECURSIVE rowsWhile(_, _, _, _, _, _, _, _, _)
\* the `while (parent)` loop of visitRows
rowsWhile(N, user, includeHidden, checkFilter, node, parent, siblingOfs, skipFirst, acc) ==
    IF parent = NoNode THEN [seq |-> acc, res |-> "true", thrown |-> NoError]
    ELSE
    LET siblings == N[parent].children
        nextIdx == indexOf(siblings, node) + siblingOfs
    IN  IF nextIdx < 0
        THEN [seq |-> acc, res |-> "undef", thrown |-> "AssertionError"]
        ELSE
        LET r == rowsFor(N, user, includeHidden, checkFilter, siblings,
                         nextIdx + 1, skipFirst, acc)
        IN  IF r.res = "false"
            THEN [seq |-> r.seq, res |-> "false", thrown |-> NoError]
            ELSE rowsWhile(N, user, includeHidden, checkFilter, parent,
                           N[parent].parent, 1, r.skipFirst, r.seq)

\* node.isVisible(): the node is a row of the current visible order
RECURSIVE isVisibleUp(_, _, _)
isVisibleUp(N, T, p) ==
    IF p = NoNode \/ N[p].parent = NoNode THEN TRUE
    ELSE /\ N[p].expanded
         /\ ~(enableFilter(T) /\ FilterPruned(N, p))
         /\ isVisibleUp(N, T, N[p].parent)

isVisible(N, T, n) ==
    /\ ~(enableFilter(T) /\ FilterPruned(N, n))
    /\ isVisibleUp(N, T, N[n].parent)

\* mutant: the previous sibling is taken without following down into it
lastDescendantStay(N, includeHidden, node) == node

RECURSIVE lastDescendant(_, _, _)
\* the inner `while` of _visitRowsUp: follow down to the last descendant
lastDescendant(N, includeHidden, node) ==
    IF (includeHidden \/ N[node].expanded) /\ HasChildNodes(N, node)
    THEN lastDescendant(N, includeHidden,
                        N[node].children[Len(N[node].children)])
    ELSE node

RECURSIVE rowsUpLoop(_, _, _, _, _)
\* the `while (true)` loop of _visitRowsUp
rowsUpLoop(N, T, user, includeHidden, node) ==
    LET parent == N[node].parent
    IN  IF parent = NoNode
        THEN [seq |-> <<>>, res |-> "undef", thrown |-> "TypeError"]
        ELSE
        LET children == N[parent].children
            first == Len(children) > 0 /\ children[1] = node
            idx == indexOf(children, node)
        IN  IF first /\ N[parent].parent = NoNode
            THEN [seq |-> <<>>, res |-> "true", thrown |-> NoError]
            ELSE IF ~first /\ idx < 1
            THEN [seq |-> <<>>, res |-> "undef", thrown |-> "TypeError"]
            ELSE
            LET next == IF first THEN parent
                        ELSE lastDescendant(N, includeHidden, children[idx])
            IN  IF ~includeHidden /\ ~isVisible(N, T, next)
                THEN rowsUpLoop(N, T, user, includeHidden, next)
                ELSE [seq |-> <<next>>,
                      res |-> IF user[next] = "false" THEN "false" ELSE "true",
                      thrown |-> NoError]

\* Wunderbaum._visitRowsUp(callback, opts)
visitRowsUp(N, T, user, opts) ==
    rowsUpLoop(N, T, user, opts.includeHidden,
               IF opts.start # NoNode THEN opts.start ELSE N[Root].children[1])

\* mutant: visitRows prunes by the filter in every filter mode
visitRowsAnyMode(N, T, user, opts) ==
    IF hasChildren(N, Root) # "true"
    THEN [seq |-> <<>>, res |-> "false", thrown |-> NoError]
    ELSE IF opts.reverse THEN visitRowsUp(N, T, user, opts)
    ELSE
    LET node == IF opts.start # NoNode THEN opts.start ELSE N[Root].children[1]
    IN  rowsWhile(N, user, opts.includeHidden,
                  ~opts.includeHidden /\ T.filterMode # "null",
                  node, N[node].parent, 0, opts.includeSelf = FALSE, <<>>)

\* Wunderbaum.visitRows(callback, opts)
visitRows(N, T, user, opts) ==
    IF hasChildren(N, Root) # "true"
    THEN [seq |-> <<>>, res |-> "false", thrown |-> NoError]
    ELSE IF opts.reverse THEN visitRowsUp(N, T, user, opts)
    ELSE
    LET node == IF opts.start # NoNode THEN opts.start ELSE N[Root].children[1]
    IN  rowsWhile(N, user, opts.includeHidden,
                  ~opts.includeHidden /\ enableFilter(T),
                  node, N[node].parent, 0, opts.includeSelf = FALSE, <<>>)

\* a callback that returns nothing
NoResult(N) == [n \in NodeIds(N) |-> "undef"]

----------------------------------------------------------------------------
(* Worlds: what a handler starts from and what it leaves behind *)

World(N, T) ==
    [n |-> N, t |-> T, thrown |-> NoError, ret |-> "undef", count |-> 0]

Throw(w, e) == [w EXCEPT !.thrown = e, !.ret = "undef"]

Return(w, v) == [w EXCEPT !.ret = v]

BoolStr(b) == IF b THEN "true" ELSE "false"

Max(a, b) == IF a > b THEN a ELSE b

----------------------------------------------------------------------------
(* Rendering *)

\* scrollContainer.clientHeight, in pixels: a property of the page
ClientHeight == 32

\* the class names render() gives the row element
rowClasses(N, T, n) ==
    {"wb-row"}
    \cup (IF N[n].expanded THEN {"wb-expanded"} ELSE {})
    \cup (IF N[n].lazy THEN {"wb-lazy"} ELSE {})
    \cup (IF N[n].selected THEN {"wb-selected"} ELSE {})
    \cup (IF T.activeNode = n THEN {"wb-active"} ELSE {})

\* node.render(opts): creates the row element if there is none, and updates it
render(N, T, n) ==
    [N EXCEPT ![n].rowElem =
        Some([top |-> N[n].rowIdx * ROW_HEIGHT, cls |-> rowClasses(N, T, n)])]

\* node.setDirty(hint)
setDirty(N, T, n) == render(N, T, n)

\* node.setExpanded(flag)
setExpanded(N, T, n, flag) ==
    setDirty([N EXCEPT ![n].expanded = flag], T, n)

\* node.setSelected(flag)
setSelected(N, T, n, flag) ==
    setDirty([N EXCEPT ![n].selected = flag], T, n)

\* node.setActive(): a world, since it writes tree.activeNode
setActive(w, n) ==
    [w EXCEPT !.t = [w.t EXCEPT !.activeNode = n],
              !.n = setDirty(IF w.t.activeNode # NoNode
                             THEN setDirty(w.n, [w.t EXCEPT !.activeNode = n],
                                           w.t.activeNode)
                             ELSE w.n,
                             [w.t EXCEPT !.activeNode = n], n)]

\* `idx < start || idx > end` in the callback of renumber; the range is
\* given in sixteenths of a row (pixels), as updateViewport computes it
OutOfRange(idx, startNum, endNum) ==
    idx * ROW_HEIGHT < startNum \/ idx * ROW_HEIGHT > endNum

\* mutant: the row index is written only when the row is rendered
renumberRowLazyIdx(N, T, node, idx, startNum, endNum) ==
    IF OutOfRange(idx, startNum, endNum)
    THEN [N EXCEPT ![node].rowElem = Absent]
    ELSE IF ~IsSet(N[node].rowElem) \/ N[node].rowIdx # idx
    THEN render([N EXCEPT ![node].rowIdx = idx], T, node)
    ELSE N

\* mutant: a row inside the range is rendered again on every pass
rowActionRerender(N, node, idx, startNum, endNum) ==
    IF OutOfRange(idx, startNum, endNum) THEN "remove" ELSE "render"

\* what the callback of renumber() does to the surface of row number idx:
\* it removes it, calls node.render(), or leaves it untouched
rowAction(N, node, idx, startNum, endNum) ==
    IF OutOfRange(idx, startNum, endNum) THEN "remove"
    ELSE IF ~IsSet(N[node].rowElem) \/ N[node].rowIdx # idx THEN "render"
    ELSE "keep"

\* the callback renumber() hands to visitRows, applied to row number idx
renumberRow(N, T, node, idx, startNum, endNum) ==
    LET act == rowAction(N, node, idx, startNum, endNum)
        N1 == [N EXCEPT ![node].rowIdx = idx]
    IN  IF act = "remove" THEN [N1 EXCEPT ![node].rowElem = Absent]
        ELSE IF act = "render" THEN render(N1, T, node)
        ELSE N1

RECURSIVE renumberRows(_, _, _, _, _, _)
\* the calls of that callback along the rows visitRows yields
renumberRows(N, T, rows, i, startNum, endNum) ==
    IF i > Len(rows) THEN N
    ELSE renumberRows(renumberRow(N, T, rows[i], i - 1, startNum, endNum),
                      T, rows, i + 1, startNum, endNum)

\* `this.root.children[1].expanded = true` in renumber
forceExpandSecond(N) ==
    [N EXCEPT ![N[Root].children[2]].expanded = TRUE]

\* the content height renumber() sets: `top` after the traversal
contentHeight(rows) == Len(rows) * ROW_HEIGHT

\* mutant: the content height counts only the rows that hold a surface
renumberResultRendered(w, N1, N2, rows) ==
    [w EXCEPT !.n = N2,
              !.t = [w.t EXCEPT !.height =
                        Some(Cardinality({i \in 1..Len(rows) : IsSet(N2[rows[i]].rowElem)})
                             * ROW_HEIGHT)],
              !.ret = BoolStr(\E n \in NodeIds(N1) : N2[n].rowIdx # N1[n].rowIdx)]

\* the end of renumber(): the content height is set and `modified` returned;
\* N1 is the heap the traversal started from, N2 the heap it left
renumberResult(w, N1, N2, rows) ==
    [w EXCEPT !.n = N2,
              !.t = [w.t EXCEPT !.height = Some(contentHeight(rows))],
              !.ret = BoolStr(\E n \in NodeIds(N1) : N2[n].rowIdx # N1[n].rowIdx)]

\* the visitRows call of renumber(), over the rows it yields
renumberAlong(w, N1, rows, startNum, endNum) ==
    renumberResult(w, N1, renumberRows(N1, w.t, rows, 1, startNum, endNum), rows)

\* Wunderbaum.renumber(opts), opts = {startIdx, endIdx} in pixels;
\* hasRange is false when startIdx or endIdx is missing
renumber(w, hasRange, startNum, endNum) ==
    IF ~hasRange THEN Throw(w, "AssertionError")
    ELSE IF Len(w.n[Root].children) < 2 THEN Throw(w, "TypeError")
    ELSE renumberAlong(w, forceExpandSecond(w.n),
                       visitRows(forceExpandSecond(w.n), w.t, NoResult(w.n),
                                 DefaultRowOpts).seq,
                       startNum, endNum)

\* Wunderbaum.updateViewport()
updateViewport(w) ==
    renumber(w, TRUE,
             Max(0, w.t.scrollTop - RENDER_PREFETCH * ROW_HEIGHT),
             Max(0, w.t.scrollTop + ClientHeight + RENDER_PREFETCH * ROW_HEIGHT))

\* a handler returns v unless a call it made has thrown
ReturnUnlessThrown(w, v) == IF w.thrown # NoError THEN w ELSE Return(w, v)

\* `this._enableUpdate = flag`
setEnableUpdate(w, flag) == [w EXCEPT !.t = [w.t EXCEPT !.enableUpdate = flag]]

\* Wunderbaum.enableUpdate(flag)
enableUpdate(w, flag) ==
    IF w.t.enableUpdate = flag THEN Return(w, BoolStr(flag))
    ELSE IF flag
    THEN ReturnUnlessThrown(updateViewport(setEnableUpdate(w, flag)),
                            BoolStr(~flag))
    ELSE Return(setEnableUpdate(w, flag), BoolStr(~flag))

\* enableUpdate(prevEnableUpdate), the value an earlier enableUpdate(false)
\* returned being still in w.ret
restoreUpdate(w) == enableUpdate(w, w.ret = "true")

----------------------------------------------------------------------------
(* Loading data *)

RECURSIVE addChildrenFrom(_, _, _, _)
\* the loop of Wunderbaum.addChildren(parent, data) from record i on
addChildrenFrom(N, parent, data, i) ==
    IF i > Len(data) THEN N
    ELSE
    LET d == data[i]
        id == Len(N) + 1
        N1 == addChild(Append(N, NewNode(parent, d)), parent, id)
        N2 == IF d.hasChildren THEN addChildrenFrom(N1, id, d.children, 1)
              ELSE N1
    IN  addChildrenFrom(N2, parent, data, i + 1)

\* Wunderbaum.addChildren(parent, data)
addChildren(N, parent, data) == addChildrenFrom(N, parent, data, 1)

\* addChildren as a step of a handler
addChildrenTo(w, parent, data) ==
    [w EXCEPT !.n = addChildren(w.n, parent, data)]

\* the continuation of Wunderbaum._load(parent, source) that receives `data`
loadReceived(w, parent, data) ==
    restoreUpdate(addChildrenTo(enableUpdate(w, FALSE), parent, data))

RECURSIVE dataSize(_)
\* the number of nodes a data list creates
dataSize(data) ==
    IF Len(data) = 0 THEN 0
    ELSE 1 + (IF data[1].hasChildren THEN dataSize(data[1].children) ELSE 0)
           + dataSize(Tail(data))

----------------------------------------------------------------------------
(* Text: a string is a sequence of one-character strings; markup is a      *)
(* sequence of tokens (characters, entities, tags)                         *)

START_MARKER == "\\uFFF7"
END_MARKER == "\\uFFF8"

\* String.prototype.toLowerCase on the letters the model uses; this is how
\* a RegExp with flag "i" compares characters
Lower(c) ==
    CASE c = "A" -> "a" [] c = "B" -> "b" [] c = "C" -> "c" [] c = "D" -> "d"
      [] c = "E" -> "e" [] c = "F" -> "f" [] c = "O" -> "o" [] c = "R" -> "r"
      [] OTHER -> c

SameChar(a, b) == Lower(a) = Lower(b)

\* the pattern `pat` matches `text` at position i (1-based), ignoring case
MatchesAt(text, pat, i) ==
    /\ i + Len(pat) - 1 <= Len(text)
    /\ \A k \in 1..Len(pat) : SameChar(text[i + k - 1], pat[k])

\* text.match(new RegExp(escapeRegex(filter), "i")) finds something
LiteralMatch(text, pat) == \E i \in 1..Len(text) : MatchesAt(text, pat, i)

RECURSIVE markLiteral(_, _, _, _, _)
\* text.replace(reHighlight, s => open + s + close) from position i on:
\* every match, left to right, without overlap
markLiteral(text, pat, i, open, close) ==
    IF i > Len(text) THEN (IF Len(pat) = 0 THEN <<open, close>> ELSE <<>>)
    ELSE IF Len(pat) = 0
    THEN <<open, close, text[i]>> \o markLiteral(text, pat, i + 1, open, close)
    ELSE IF MatchesAt(text, pat, i)
    THEN <<open>> \o SubSeq(text, i, i + Len(pat) - 1) \o <<close>>
         \o markLiteral(text, pat, i + Len(pat), open, close)
    ELSE <<text[i]>> \o markLiteral(text, pat, i + 1, open, close)

RECURSIVE fuzzyGroups(_, _, _)
\* the capture groups of text.match(re) for the fuzzy pattern
\* ([^c1]*)c1([^c2]*)c2...: their lengths, or <<-1>> when there is no match.
\* Each group is greedy over a negated class, so it runs to the next
\* occurrence of its character.
fuzzyGroups(text, pat, from) ==
    IF Len(pat) = 0 THEN <<>>
    ELSE
    LET hits == {i \in from..Len(text) : SameChar(text[i], pat[1])}
    IN  IF hits = {} THEN <<0 - 1>>
        ELSE
        LET i == CHOOSE h \in hits : \A g \in hits : h <= g
            rest == fuzzyGroups(text, Tail(pat), i + 1)
        IN  IF Len(rest) > 0 /\ rest[Len(rest)] < 0 THEN <<0 - 1>>
            ELSE <<i - from>> \o rest

FuzzyMatch(text, pat) ==
    LET g == fuzzyGroups(text, pat, 1) IN Len(g) = 0 \/ g[Len(g)] >= 0

RECURSIVE fuzzyIndicesNoStep(_, _, _)
\* mutant: the index of a matched character forgets the matched character
\* before it
fuzzyIndicesNoStep(groups, k, acc) ==
    IF k > Len(groups) THEN acc
    ELSE fuzzyIndicesNoStep(groups, k + 1,
            Append(acc, groups[k] + (IF Len(acc) = 0 THEN 0 ELSE acc[Len(acc)])))

RECURSIVE fuzzyIndices(_, _, _)
\* the loop of _markFuzzyMatchedChars computing matchingIndices (0-based)
\* from the group lengths
fuzzyIndices(groups, k, acc) ==
    IF k > Len(groups) THEN acc
    ELSE fuzzyIndices(groups, k + 1,
            Append(acc, groups[k] + (IF k = 1 THEN 0 ELSE 1)
                        + (IF Len(acc) = 0 THEN 0 ELSE acc[Len(acc)])))

\* _markFuzzyMatchedChars(text, matches, escapeTitles): each text position
\* becomes a token list, the matched ones wrapped
markFuzzyMatchedChars(text, groups, escapeTitles) ==
    LET idxs == fuzzyIndices(groups, 1, <<>>)
        hit(i) == \E k \in 1..Len(idxs) : idxs[k] = i - 1
        open == IF escapeTitles THEN START_MARKER ELSE "<mark>"
        close == IF escapeTitles THEN END_MARKER ELSE "</mark>"
        RECURSIVE join(_)
        join(i) == IF i > Len(text) THEN <<>>
                   ELSE (IF hit(i) THEN <<open, text[i], close>> ELSE <<text[i]>>)
                        \o join(i + 1)
    IN  join(1)

\* util.escapeHtml: the characters & < > " ' / become entities
escapeHtmlChar(c) ==
    CASE c = "&" -> "&amp;" [] c = "<" -> "&lt;" [] c = ">" -> "&gt;"
      [] c = "\"" -> "&quot;" [] c = "'" -> "&#39;" [] c = "/" -> "&#x2F;"
      [] OTHER -> c

escapeHtml(toks) == [i \in 1..Len(toks) |-> escapeHtmlChar(toks[i])]

\* .replace(RE_START_MARKER, "<mark>").replace(RE_END_MARTKER, "</mark>")
markersToTags(toks) ==
    [i \in 1..Len(toks) |->
        IF toks[i] = START_MARKER THEN "<mark>"
        ELSE IF toks[i] = END_MARKER THEN "</mark>"
        ELSE toks[i]]

RECURSIVE extractHtmlText(_, _, _)
\* util.extractHtmlText(title): the text outside of <...> tags
extractHtmlText(title, i, inTag) ==
    IF i > Len(title) THEN <<>>
    ELSE IF inTag
    THEN extractHtmlText(title, i + 1, title[i] # ">")
    ELSE IF title[i] = "<" THEN extractHtmlText(title, i + 1, TRUE)
    ELSE <<title[i]>> \o extractHtmlText(title, i + 1, FALSE)

----------------------------------------------------------------------------
(* FilterExtension *)

\* a filter argument: a string, or a callback given by what it returns for
\* a node of each title ("true", "false", "skip", "branch")
TextFilter(text) == [kind |-> "text", text |-> text, tbl |-> <<>>]
FnFilter(tbl) == [kind |-> "fn", text |-> <<>>, tbl |-> tbl]

\* tbl is a sequence of <<title, result>> pairs; other titles give "false"
FnResult(tbl, title) ==
    IF \E i \in 1..Len(tbl) : tbl[i][1] = title
    THEN tbl[CHOOSE i \in 1..Len(tbl) : tbl[i][1] = title][2]
    ELSE "false"

\* the options of a call merged over the defaults of the extension
FilterOpts(mode, leavesOnly, autoExpand, highlight, fuzzy, hideExpanders, noData) ==
    [mode |-> mode, leavesOnly |-> leavesOnly, autoExpand |-> autoExpand,
     highlight |-> highlight, fuzzy |-> fuzzy, hideExpanders |-> hideExpanders,
     noData |-> noData]

\* the defaults set by the constructor of FilterExtension
DefaultFilterOpts == FilterOpts("hide", FALSE, FALSE, TRUE, FALSE, FALSE, TRUE)

\* the text the compiled predicate matches against
filterText(T, title) ==
    IF T.escapeTitles THEN title ELSE extractHtmlText(title, 1, FALSE)

\* what the predicate returns for a node with this title
predicateResult(T, filter, opts, title) ==
    IF filter.kind = "fn" THEN FnResult(filter.tbl, title)
    ELSE IF Len(title) = 0 THEN "false"
    ELSE LET text == filterText(T, title)
         IN  BoolStr(IF opts.fuzzy THEN FuzzyMatch(text, filter.text)
                     ELSE LiteralMatch(text, filter.text))

\* mutant: the matches are wrapped in angle brackets, not in sentinels,
\* before the text is escaped
highlightMarkupNoSentinel(T, filter, opts, title) ==
    markersToTags(escapeHtml(
        markLiteral(filterText(T, title), filter.text, 1, "<", ">")))

\* the titleWithHighlight the compiled predicate computes on a match
highlightMarkup(T, filter, opts, title) ==
    LET text == filterText(T, title)
    IN  IF T.escapeTitles
        THEN markersToTags(escapeHtml(
                IF opts.fuzzy
                THEN markFuzzyMatchedChars(text, fuzzyGroups(text, filter.text, 1), TRUE)
                ELSE markLiteral(text, filter.text, 1, START_MARKER, END_MARKER)))
        ELSE IF opts.fuzzy
        THEN markFuzzyMatchedChars(text, fuzzyGroups(text, filter.text, 1), FALSE)
        ELSE markLiteral(text, filter.text, 1, "<mark>", "</mark>")

\* the side effect of calling the predicate on node n
predicateEffect(N, T, filter, opts, n) ==
    IF /\ filter.kind = "text"
       /\ predicateResult(T, filter, opts, N[n].title) = "true"
       /\ opts.highlight
    THEN [N EXCEPT ![n].titleWithHighlight =
                       Some(highlightMarkup(T, filter, opts, N[n].title))]
    ELSE N

\* tree.setStatus(status) / tree.root.setStatus(status)
setStatus(T, status) == [T EXCEPT !.status = status]

\* element.classList.toggle(name, force)
classToggle(T, name, force) ==
    [T EXCEPT !.classList = IF force THEN @ \cup {name} ELSE @ \ {name}]

\* the three classList.toggle calls of _applyFilterImpl
applyStyleHooks(T, opts) ==
    classToggle(
        classToggle(
            classToggle(T, "wb-ext-filter-hide", opts.mode = "hide"),
            "wb-ext-filter-dimm", opts.mode # "hide"),
        "wb-ext-filter-hide-expanders", opts.hideExpanders)

\* mutant: the reset pass forgets the counter, so counts accumulate
resetNodeKeepCount(node) ==
    [node EXCEPT !.match = Absent, !.titleWithHighlight = Absent]

\* what the callback of the reset pass does to one node
resetNode(node) ==
    [node EXCEPT !.match = Absent, !.titleWithHighlight = Absent,
                 !.subMatchCount = Some(0)]

RECURSIVE resetNodes(_, _, _)
\* the calls of that callback along tree.visit
resetNodes(N, visited, i) ==
    IF i > Len(visited) THEN N
    ELSE resetNodes([N EXCEPT ![visited[i]] = resetNode(N[visited[i]])],
                    visited, i + 1)

\* "Reset current filter": root.subMatchCount = 0 and the reset pass
resetPass(N) ==
    resetNodes([N EXCEPT ![Root].subMatchCount = Some(0)],
               treeVisit(N, NoResult(N)).seq, 1)

\* mutant: leavesOnly keeps no node from the predicate
notEvaluatedNever(N, leavesOnly, n) == FALSE

\* `leavesOnly && node.children != null`: the node is not evaluated
notEvaluated(N, leavesOnly, n) == leavesOnly /\ HasChildArray(N, n)

\* mutant: the evaluation callback never answers "skip"
evalReturnsNoSkip(N, T, filter, opts, leavesOnly) ==
    [n \in NodeIds(N) |-> "undef"]

\* mutant: the evaluation pass prunes collapsed nodes, as a row traversal does
evalReturnsVisibleOnly(N, T, filter, opts, leavesOnly) ==
    [n \in NodeIds(N) |->
        IF notEvaluated(N, leavesOnly, n) THEN "undef"
        ELSE IF predicateResult(T, filter, opts, N[n].title) = "skip" THEN "skip"
        ELSE IF HasChildArray(N, n) /\ ~N[n].expanded THEN "skip"
        ELSE "undef"]

\* what the callback of the evaluation pass returns at each node
evalReturns(N, T, filter, opts, leavesOnly) ==
    [n \in NodeIds(N) |->
        IF notEvaluated(N, leavesOnly, n) THEN "undef"
        ELSE IF predicateResult(T, filter, opts, N[n].title) = "skip" THEN "skip"
        ELSE "undef"]

RECURSIVE markFalse(_, _, _)
markFalse(N, sub, i) ==
    IF i > Len(sub) THEN N
    ELSE markFalse([N EXCEPT ![sub[i]].match = Some(FALSE)], sub, i + 1)

\* node.visit(c => { c.match = false }, true)
markSubtreeFalse(N, n) == markFalse(N, visit(N, NoResult(N), n, TRUE).seq, 1)

\* `p.subMatchCount += 1`; on a deleted count it gives NaN, which like the
\* deleted count is falsy and stays so when incremented
incSubMatchCount(node) ==
    IF IsSet(node.subMatchCount)
    THEN [node EXCEPT !.subMatchCount = Some(Val(@) + 1)]
    ELSE node

\* that callback without the expansion of collapsed nodes
matchParentNoExpand(N, T, node, p, autoExpand, matchedByBranch) ==
    IF p # node THEN [N EXCEPT ![p] = incSubMatchCount(N[p])] ELSE N

\* the callback handed to node.visitParents for a matching node, at p
matchParent(N, T, node, p, autoExpand, matchedByBranch) ==
    LET N1 == IF p # node THEN [N EXCEPT ![p] = incSubMatchCount(N[p])] ELSE N
    IN  IF autoExpand /\ ~matchedByBranch /\ ~N1[p].expanded
        THEN [setExpanded(N1, T, p, TRUE) EXCEPT ![p].filterAutoExpanded = TRUE]
        ELSE N1

RECURSIVE matchParents(_, _, _, _, _, _, _)
\* the calls of that callback along node.visitParents(cb, true)
matchParents(N, T, node, chain, i, autoExpand, matchedByBranch) ==
    IF i > Len(chain) THEN N
    ELSE matchParents(
            matchParent(N, T, node, chain[i], autoExpand, matchedByBranch),
            T, node, chain, i + 1, autoExpand, matchedByBranch)

\* the node is matched only because its parent is
matchedByBranch(N, res, branchMode, n) ==
    (branchMode \/ res = "branch") /\ TruthyFlag(N[N[n].parent].match)

\* mutant: a node matched by inheritance is not counted
evalHitDirectOnly(c, N1, T, n, autoExpand, byBranch) ==
    [n |-> matchParents([N1 EXCEPT ![n].match = Some(TRUE)], T, n,
                        visitParents(N1, NoResult(N1), n, TRUE).seq,
                        1, autoExpand, byBranch),
     count |-> IF byBranch THEN c.count ELSE c.count + 1]

\* the evaluation callback for a node that matches: `count++`, the match
\* flag, and the walk up the parents; c is [n |-> heap, count], N1 the heap
\* the predicate left
evalHit(c, N1, T, n, autoExpand, byBranch) ==
    [n |-> matchParents([N1 EXCEPT ![n].match = Some(TRUE)], T, n,
                        visitParents(N1, NoResult(N1), n, TRUE).seq,
                        1, autoExpand, byBranch),
     count |-> c.count + 1]

\* the evaluation callback once the predicate has returned res
evalResult(c, N1, T, res, branchMode, opts, n) ==
    IF res = "skip" THEN [c EXCEPT !.n = markSubtreeFalse(N1, n)]
    ELSE IF matchedByBranch(N1, res, branchMode, n) \/ res \in {"true", "branch"}
    THEN evalHit(c, N1, T, n, opts.autoExpand,
                 matchedByBranch(N1, res, branchMode, n))
    ELSE [c EXCEPT !.n = N1]

\* the callback of the evaluation pass at node n
evalNode(c, T, filter, branchMode, opts, leavesOnly, n) ==
    IF notEvaluated(c.n, leavesOnly, n) THEN c
    ELSE evalResult(c, predicateEffect(c.n, T, filter, opts, n), T,
                    predicateResult(T, filter, opts, c.n[n].title),
                    branchMode, opts, n)

RECURSIVE evalNodes(_, _, _, _, _, _, _, _)
evalNodes(c, T, filter, branchMode, opts, leavesOnly, visited, i) ==
    IF i > Len(visited) THEN c
    ELSE evalNodes(evalNode(c, T, filter, branchMode, opts, leavesOnly, visited[i]),
                   T, filter, branchMode, opts, leavesOnly, visited, i + 1)

\* the evaluation pass: tree.visit with the callback above
evalPass(N, T, filter, branchMode, opts, leavesOnly) ==
    evalNodes([n |-> N, count |-> 0], T, filter, branchMode, opts, leavesOnly,
              treeVisit(N, evalReturns(N, T, filter, opts, leavesOnly)).seq, 1)

\* mutant: clearFilter leaves the highlighted title behind
clearNodeKeepHighlight(N, T, n) ==
    LET N1 == [N EXCEPT ![n].match = Absent, ![n].subMatchCount = Absent]
        N2 == IF N1[n].filterAutoExpanded /\ N1[n].expanded
              THEN setExpanded(N1, T, n, FALSE) ELSE N1
    IN  [N2 EXCEPT ![n].filterAutoExpanded = FALSE]

\* what the callback of clearFilter's tree.visit does to node n
clearNode(N, T, n) ==
    LET N1 == [N EXCEPT ![n].match = Absent, ![n].subMatchCount = Absent,
                        ![n].titleWithHighlight = Absent]
        N2 == IF N1[n].filterAutoExpanded /\ N1[n].expanded
              THEN setExpanded(N1, T, n, FALSE) ELSE N1
    IN  [N2 EXCEPT ![n].filterAutoExpanded = FALSE]

RECURSIVE clearNodes(_, _, _, _)
clearNodes(N, T, visited, i) ==
    IF i > Len(visited) THEN N
    ELSE clearNodes(clearNode(N, T, visited[i]), T, visited, i + 1)

\* `delete tree.root.match; delete tree.root.subMatchCount`
clearRoot(N) ==
    [N EXCEPT ![Root].match = Absent, ![Root].subMatchCount = Absent]

\* classList.remove(...) at the end of clearFilter
removeStyleHooks(T) ==
    classToggle(classToggle(T, "wb-ext-filter-dimm", FALSE),
                "wb-ext-filter-hide", FALSE)

\* clearFilter() between its two enableUpdate calls
clearFilterBody(w) ==
    [w EXCEPT !.n = clearNodes(clearRoot(w.n), w.t,
                               treeVisit(w.n, NoResult(w.n)).seq, 1),
              !.t = removeStyleHooks([setStatus(w.t, "ok") EXCEPT
                                         !.filterMode = "null",
                                         !.lastFilterArgs = Absent])]

\* FilterExtension.clearFilter()
clearFilter(w) ==
    ReturnUnlessThrown(
        restoreUpdate(clearFilterBody(enableUpdate(w, FALSE))), "undef")

\* `tree.filterMode = opts.mode; this.lastFilterArgs = arguments`
storeFilterArgs(w, filter, branchMode, opts) ==
    [w EXCEPT !.t = [w.t EXCEPT !.filterMode = opts.mode,
                                !.lastFilterArgs = Some([filter |-> filter,
                                                         branchMode |-> branchMode,
                                                         opts |-> opts])]]

\* the tree while the evaluation pass runs: style hooks toggled, status
\* "ok", autoCollapse off
filterPassTree(T, opts) ==
    [setStatus(applyStyleHooks(T, opts), "ok") EXCEPT !.autoCollapse = FALSE]

\* after the evaluation pass (c its result): autoCollapse restored to what
\* it was, the "no data" status set for an empty result
filterPassDone(w, c, opts) ==
    [w EXCEPT !.n = c.n,
              !.count = c.count,
              !.t = setStatus(applyStyleHooks(w.t, opts),
                              IF c.count = 0 /\ opts.noData /\ opts.mode = "hide"
                              THEN "noData" ELSE "ok")]

\* _applyFilterImpl between its two enableUpdate calls
filterPassBody(w, filter, branchMode, opts) ==
    filterPassDone(w,
        evalPass(resetPass(w.n), filterPassTree(w.t, opts), filter, branchMode,
                 opts, opts.leavesOnly /\ ~branchMode),
        opts)

\* `return count`
returnCount(w) == IF w.thrown # NoError THEN w ELSE Return(w, "count")

\* FilterExtension._applyFilterImpl(filter, branchMode, _opts) for a filter
\* that is not the empty string
applyFilterPass(w, filter, branchMode, opts) ==
    returnCount(restoreUpdate(
        filterPassBody(
            enableUpdate(storeFilterArgs(w, filter, branchMode, opts), FALSE),
            filter, branchMode, opts)))

\* mutant: the empty string is compiled like any other text
applyFilterNoShortcut(w, filter, branchMode, opts) ==
    applyFilterPass(w, filter, branchMode, opts)

\* FilterExtension._applyFilterImpl(filter, branchMode, _opts)
applyFilterImpl(w, filter, branchMode, opts) ==
    IF filter.kind = "text" /\ Len(filter.text) = 0
    THEN ReturnUnlessThrown(clearFilter(w), "undef")
    ELSE applyFilterPass(w, filter, branchMode, opts)

\* FilterExtension.filterNodes(filter, opts)
filterNodes(w, filter, opts) == applyFilterImpl(w, filter, FALSE, opts)

\* FilterExtension.filterBranches(filter, opts)
filterBranches(w, filter, opts) == applyFilterImpl(w, filter, TRUE, opts)

\* mutant: updateFilter re-applies the filter although autoApply is off
updateFilterAlways(w) ==
    IF w.t.filterMode # "null" /\ IsSet(w.t.lastFilterArgs)
    THEN ReturnUnlessThrown(
            applyFilterImpl(w, Val(w.t.lastFilterArgs).filter,
                            Val(w.t.lastFilterArgs).branchMode,
                            Val(w.t.lastFilterArgs).opts),
            "undef")
    ELSE Return(w, "warn")

\* FilterExtension.updateFilter()
updateFilter(w) ==
    IF w.t.filterMode # "null" /\ IsSet(w.t.lastFilterArgs) /\ w.t.autoApply
    THEN ReturnUnlessThrown(
            applyFilterImpl(w, Val(w.t.lastFilterArgs).filter,
                            Val(w.t.lastFilterArgs).branchMode,
                            Val(w.t.lastFilterArgs).opts),
            "undef")
    ELSE Return(w, "warn")

----------------------------------------------------------------------------
(* The inputs the host chooses from *)

A == <<"A">>
B == <<"B">>
C == <<"C">>
D == <<"D">>

\* data lists handed to load() and addChildren()
SourceChoices ==
    { <<>>,
      <<Leaf(A)>>,
      <<Folder(A, <<Leaf(B)>>), Leaf(C)>>,
      <<Leaf(A), Folder(B, <<Leaf(C)>>)>>,
      <<Folder(A, <<Folder(B, <<Leaf(C)>>)>>), Leaf(D)>>,
      <<Folder(A, <<>>)>> }

\* calls of filterNodes / filterBranches: the filter and the options
FilterCall(filter, opts) == [filter |-> filter, opts |-> opts]

MatchA == FnFilter(<< <<A, "true">> >>)
MatchBC == FnFilter(<< <<B, "true">>, <<C, "true">> >>)
SkipA == FnFilter(<< <<A, "skip">>, <<B, "true">>, <<C, "true">> >>)
BranchB == FnFilter(<< <<A, "true">>, <<B, "branch">>, <<D, "branch">> >>)

HideOpts == DefaultFilterOpts
DimExpandOpts == FilterOpts("dim", FALSE, TRUE, TRUE, FALSE, TRUE, TRUE)
LeavesOpts == FilterOpts("hide", TRUE, TRUE, FALSE, FALSE, FALSE, FALSE)

FilterCalls ==
    { FilterCall(TextFilter(<<>>), HideOpts),
      FilterCall(TextFilter(<<"b">>), HideOpts),
      FilterCall(MatchA, DimExpandOpts),
      FilterCall(MatchBC, LeavesOpts),
      FilterCall(SkipA, HideOpts),
      FilterCall(BranchB, HideOpts) }

\* tree options fixed at construction
ConfigChoices ==
    { [escapeTitles |-> TRUE, autoApply |-> TRUE, autoCollapse |-> FALSE],
      [escapeTitles |-> FALSE, autoApply |-> FALSE, autoCollapse |-> TRUE] }

\* scroll offsets (pixels) the scroll container can be at
ScrollChoices(T) ==
    {ofs \in {0, ROW_HEIGHT} :
        ofs <= Max(0, (IF IsSet(T.height) THEN Val(T.height) ELSE 0) - ClientHeight)}

----------------------------------------------------------------------------
(* State machine *)

\* the Wunderbaum object after its constructor
NewTree(cfg) ==
    [ activeNode     |-> NoNode,
      enableUpdate   |-> TRUE,
      filterMode     |-> "null",
      lastFilterArgs |-> Absent,
      classList      |-> {},
      height         |-> Absent,
      scrollTop      |-> 0,
      status         |-> "ok",
      escapeTitles   |-> cfg.escapeTitles,
      autoApply      |-> cfg.autoApply,
      autoCollapse   |-> cfg.autoCollapse ]

\* what a call found: facts about the state it started from
Pre(N, T) ==
    [ filterMode   |-> T.filterMode,
      enableUpdate |-> T.enableUpdate,
      highlighted  |-> \E n \in NodeIds(N) : IsSet(N[n].titleWithHighlight),
      counted      |-> \E n \in NodeIds(N) : TruthyNum(N[n].subMatchCount) ]

NoPre == Pre(<<RootNode>>, [filterMode |-> "null", enableUpdate |-> TRUE])

\* the record of a call: what was called and with what; how it ended is
\* filled in when the call completes
Call(op, node, flag, filter, branchMode, opts, range, seq) ==
    [ op |-> op, thrown |-> NoError, ret |-> "undef", count |-> 0,
      node |-> node, flag |-> flag, filter |-> filter,
      branchMode |-> branchMode, opts |-> opts, range |-> range, seq |-> seq,
      rows |-> DefaultRowOpts, pre |-> NoPre, shifted |-> FALSE,
      cb |-> [node |-> NoNode, res |-> "undef"] ]

NoRange == [has |-> FALSE, start |-> 0, end |-> 0]
NoFilter == TextFilter(<<>>)

SimpleCall(op, node, flag) ==
    Call(op, node, flag, NoFilter, FALSE, DefaultFilterOpts, NoRange, <<>>)

Here == World(nodes, tree)

\* the call is renumber of the range of the call before it, a renumber that
\* completed, shifted down by one row
Shifted(prev, call) ==
    /\ prev.op = "renumber" /\ prev.range.has /\ prev.thrown = NoError
    /\ call.op = "renumber" /\ call.range.has
    /\ call.range.start = prev.range.start + 1
    /\ call.range.end = prev.range.end + 1

\* the call completes: the world w it leaves becomes the state
Commit(w, call) ==
    /\ steps' = steps + 1
    /\ nodes' = w.n
    /\ tree' = w.t
    /\ last' = [call EXCEPT !.thrown = w.thrown, !.ret = w.ret,
                            !.count = w.count, !.pre = Pre(nodes, tree),
                            !.shifted = Shifted(last, call)]

\* a row traversal completes: r is what it yielded; the state is as before
RowCall(r, opts) ==
    /\ steps' = steps + 1
    /\ UNCHANGED <<nodes, tree>>
    /\ last' = [SimpleCall("visitRows", opts.start, opts.includeSelf) EXCEPT
                    !.thrown = r.thrown, !.ret = r.res, !.seq = r.seq,
                    !.rows = opts, !.pre = Pre(nodes, tree)]

Init ==
    /\ steps = 0
    /\ nodes = <<RootNode>>
    /\ \E cfg \in ConfigChoices : tree = NewTree(cfg)
    /\ last = SimpleCall("new", NoNode, FALSE)

\* the data of tree.load(source) arrives
Load ==
    \E data \in SourceChoices :
        /\ steps < MaxOps
        /\ Len(nodes) - 1 + dataSize(data) <= MaxNodes
        /\ Commit(loadReceived(Here, Root, data), SimpleCall("load", Root, FALSE))

\* tree.addChildren(parent, data)
AddChildren ==
    \E parent \in NodeIds(nodes), data \in SourceChoices :
        /\ steps < MaxOps
        /\ Len(nodes) - 1 + dataSize(data) <= MaxNodes
        /\ Commit(addChildrenTo(Here, parent, data),
                  SimpleCall("addChildren", parent, FALSE))

\* the nodes that show an expander: node.isExpandable()
Expandable(N) == {n \in NodeIds(N) \ {Root} : HasChildArray(N, n)}

\* the user expands or collapses a node: node.setExpanded(flag)
SetExpanded ==
    \E n \in Expandable(nodes), flag \in BOOLEAN :
        /\ steps < MaxOps
        /\ Commit([Here EXCEPT !.n = setExpanded(nodes, tree, n, flag)],
                  SimpleCall("setExpanded", n, flag))

\* a click on a row: node.setActive()
SetActive ==
    \E n \in NodeIds(nodes) \ {Root} :
        /\ steps < MaxOps
        /\ Commit(setActive(Here, n), SimpleCall("setActive", n, TRUE))

\* the scroll listener: the container was scrolled to ofs
Scroll ==
    \E ofs \in ScrollChoices(tree) :
        /\ steps < MaxOps
        /\ Commit(updateViewport([Here EXCEPT !.t = [tree EXCEPT !.scrollTop = ofs]]),
                  SimpleCall("scroll", NoNode, FALSE))

\* tree.renumber({startIdx, endIdx})
Renumber ==
    \E s \in 0..MaxIdx, e \in 0..MaxIdx :
        /\ steps < MaxOps
        /\ Commit(renumber(Here, TRUE, s * ROW_HEIGHT, e * ROW_HEIGHT),
                  Call("renumber", NoNode, FALSE, NoFilter, FALSE,
                       DefaultFilterOpts,
                       [has |-> TRUE, start |-> s, end |-> e], <<>>))

\* tree.renumber(opts) with startIdx or endIdx missing
RenumberNoRange ==
    /\ steps < MaxOps
    /\ Commit(renumber(Here, FALSE, 0, 0), SimpleCall("renumber", NoNode, FALSE))

\* tree.enableUpdate(flag)
EnableUpdate ==
    \E flag \in BOOLEAN :
        /\ steps < MaxOps
        /\ Commit(enableUpdate(Here, flag),
                  SimpleCall("enableUpdate", NoNode, flag))

\* filterNodes(filter, opts)
FilterNodes ==
    \E c \in FilterCalls :
        /\ steps < MaxOps
        /\ Commit(filterNodes(Here, c.filter, c.opts),
                  Call("applyFilter", NoNode, FALSE, c.filter, FALSE,
                       c.opts, NoRange, <<>>))

\* filterBranches(filter, opts)
FilterBranches ==
    \E c \in FilterCalls :
        /\ steps < MaxOps
        /\ Commit(filterBranches(Here, c.filter, c.opts),
                  Call("applyFilter", NoNode, FALSE, c.filter, TRUE,
                       c.opts, NoRange, <<>>))

\* updateFilter()
UpdateFilter ==
    /\ steps < MaxOps
    /\ Commit(updateFilter(Here), SimpleCall("updateFilter", NoNode, FALSE))

\* clearFilter()
ClearFilter ==
    /\ steps < MaxOps
    /\ Commit(clearFilter(Here), SimpleCall("clearFilter", NoNode, FALSE))

\* the nodes a host can start a row traversal at; NoNode: the default
StartChoices(N) == (NodeIds(N) \ {Root}) \cup {NoNode}

\* tree.visitRows(callback, opts) with a callback that collects the nodes
\* and returns nothing; the traversal writes nothing
VisitRows ==
    \E start \in StartChoices(nodes), includeSelf \in BOOLEAN,
       includeHidden \in BOOLEAN, reverse \in BOOLEAN :
        /\ steps < MaxOps
        /\ RowCall(visitRows(nodes, tree, NoResult(nodes),
                             RowOpts(start, includeSelf, includeHidden, reverse)),
                   RowOpts(start, includeSelf, includeHidden, reverse))

\* a callback that returns res at node k and nothing anywhere else
UserCallback(N, k, res) == [n \in NodeIds(N) |-> IF n = k THEN res ELSE "undef"]

\* the callbacks a host hands to a traversal: one that returns nothing, and
\* those that answer "skip" or false at one node
CallbackChoices(N) ==
    {[node |-> NoNode, res |-> "undef"]}
    \cup {[node |-> k, res |-> res] : k \in NodeIds(N), res \in {"skip", "false"}}

\* a traversal completes: r is what it yielded; the state is as before
TraversalCall(op, r, thrown, node, includeSelf, opts, k, res) ==
    /\ steps' = steps + 1
    /\ UNCHANGED <<nodes, tree>>
    /\ last' = [SimpleCall(op, node, includeSelf) EXCEPT
                    !.thrown = thrown, !.ret = r.res, !.seq = r.seq,
                    !.rows = opts, !.pre = Pre(nodes, tree),
                    !.cb = [node |-> k, res |-> res]]

\* tree.visitRows(callback, opts), top-down, with such a callback
VisitRowsWith ==
    \E start \in StartChoices(nodes), includeSelf \in BOOLEAN,
       includeHidden \in BOOLEAN, c \in CallbackChoices(nodes) :
        /\ steps < MaxOps
        /\ TraversalCall("visitRows",
                         visitRows(nodes, tree, UserCallback(nodes, c.node, c.res),
                                   RowOpts(start, includeSelf, includeHidden, FALSE)),
                         visitRows(nodes, tree, UserCallback(nodes, c.node, c.res),
                                   RowOpts(start, includeSelf, includeHidden, FALSE)).thrown,
                         start, includeSelf,
                         RowOpts(start, includeSelf, includeHidden, FALSE), c.node, c.res)

\* node.visit(callback, includeSelf); at the root without includeSelf it is
\* tree.visit(callback)
VisitNode ==
    \E n \in NodeIds(nodes), includeSelf \in BOOLEAN,
       c \in CallbackChoices(nodes) :
        /\ steps < MaxOps
        /\ TraversalCall("visit", visit(nodes, UserCallback(nodes, c.node, c.res), n, includeSelf),
                         NoError, n, includeSelf, DefaultRowOpts, c.node, c.res)

\* node.visitParents(callback, includeSelf)
VisitParents ==
    \E n \in NodeIds(nodes), includeSelf \in BOOLEAN,
       c \in CallbackChoices(nodes) :
        /\ steps < MaxOps
        /\ TraversalCall("visitParents",
                         visitParents(nodes, UserCallback(nodes, c.node, c.res), n, includeSelf),
                         NoError, n, includeSelf, DefaultRowOpts, c.node, c.res)

\* node.visitSiblings(callback, includeSelf), on a node that has a parent
VisitSiblings ==
    \E n \in NodeIds(nodes) \ {Root}, includeSelf \in BOOLEAN,
       c \in CallbackChoices(nodes) :
        /\ steps < MaxOps
        /\ TraversalCall("visitSiblings",
                         visitSiblings(nodes, UserCallback(nodes, c.node, c.res), n, includeSelf),
                         NoError, n, includeSelf, DefaultRowOpts, c.node, c.res)

\* the nodes that are no part of the tree below their parent: those without
\* a parent (the root is one) and those their parent does not list
Detached(N) ==
    {n \in NodeIds(N) : \/ N[n].parent = NoNode
                        \/ indexOf(N[N[n].parent].children, n) < 0}

\* the host constructs a node and attaches it nowhere:
\* new WunderbaumNode(tree, parent, {title})
NewDetachedNode ==
    \E parent \in NodeIds(nodes) \cup {NoNode}, d \in {Leaf(A), Leaf(B)} :
        /\ steps < MaxOps
        /\ Len(nodes) <= MaxNodes
        /\ Commit([Here EXCEPT !.n = Append(nodes, NewNode(parent, d))],
                  SimpleCall("newNode", parent, FALSE))

\* tree.visitRows(callback, {start, ...}) with a start that is detached
VisitRowsDetached ==
    \E start \in Detached(nodes), includeSelf \in BOOLEAN,
       includeHidden \in BOOLEAN, reverse \in BOOLEAN :
        /\ steps < MaxOps
        /\ RowCall(visitRows(nodes, tree, NoResult(nodes),
                             RowOpts(start, includeSelf, includeHidden, reverse)),
                   RowOpts(start, includeSelf, includeHidden, reverse))

Next ==
    \/ Load
    \/ AddChildren
    \/ SetExpanded
    \/ SetActive
    \/ Scroll
    \/ Renumber
    \/ RenumberNoRange
    \/ EnableUpdate
    \/ FilterNodes
    \/ FilterBranches
    \/ UpdateFilter
    \/ ClearFilter
    \/ VisitRows

Spec == Init /\ [][Next]_vars

NextFilter ==
    \/ Load
    \/ SetExpanded
    \/ EnableUpdate
    \/ FilterNodes
    \/ FilterBranches
    \/ UpdateFilter
    \/ ClearFilter

SpecFilter == Init /\ [][NextFilter]_vars

\* the calls that decide what the rows are, and the row traversal
NextRows ==
    \/ Load
    \/ SetExpanded
    \/ FilterNodes
    \/ ClearFilter
    \/ VisitRows

SpecRows == Init /\ [][NextRows]_vars

\* the calls that change the rows and their surfaces, and the viewport pass
NextRender ==
    \/ Load
    \/ AddChildren
    \/ SetExpanded
    \/ SetActive
    \/ Scroll
    \/ Renumber
    \/ RenumberNoRange
    \/ FilterNodes
    \/ ClearFilter

SpecRender == Init /\ [][NextRender]_vars

\* the calls that decide the visible rows, and the viewport pass
NextViewport ==
    \/ Load
    \/ SetExpanded
    \/ Scroll
    \/ Renumber
    \/ RenumberNoRange
    \/ FilterNodes
    \/ ClearFilter

SpecViewport == Init /\ [][NextViewport]_vars

\* the calls that decide what the rows are, and the top-down row traversal
\* with a callback
NextVisitRows ==
    \/ Load
    \/ SetExpanded
    \/ VisitRowsWith

SpecVisitRows == Init /\ [][NextVisitRows]_vars

\* the calls that build the tree, and the node traversals with a callback
NextVisit ==
    \/ Load
    \/ VisitNode
    \/ VisitParents
    \/ VisitSiblings

SpecVisit == Init /\ [][NextVisit]_vars

\* the calls that build and expand the tree, and the filter passes
NextPass ==
    \/ Load
    \/ SetExpanded
    \/ FilterNodes
    \/ FilterBranches
    \/ ClearFilter

SpecPass == Init /\ [][NextPass]_vars

\* the calls that build the tree, the construction of a node outside of it,
\* and the row traversal started at a detached node
NextDetached ==
    \/ Load
    \/ SetExpanded
    \/ NewDetachedNode
    \/ VisitRowsDetached

SpecDetached == Init /\ [][NextDetached]_vars

\* sections with the updates suspended, and the filter calls inside and
\* outside of them
NextSuspend ==
    \/ Load
    \/ EnableUpdate
    \/ FilterNodes
    \/ FilterBranches
    \/ ClearFilter

SpecSuspend == Init /\ [][NextSuspend]_vars

----------------------------------------------------------------------------
(* Properties of the filter extension *)

RECURSIVE IsAncestor(_, _, _)
\* a is a strict ancestor of m
IsAncestor(N, a, m) ==
    /\ N[m].parent # NoNode
    /\ (N[m].parent = a \/ IsAncestor(N, a, N[m].parent))

\* the number of strict descendants of n whose match flag is true
MatchingDescendants(N, n) ==
    Cardinality({m \in NodeIds(N) : IsAncestor(N, n, m) /\ TruthyFlag(N[m].match)})

EmptyText(filter) == filter.kind = "text" /\ Len(filter.text) = 0

\* the last call ran a complete filter pass (reset and evaluation)
FilterPassRan ==
    \/ last.op = "applyFilter" /\ ~EmptyText(last.filter)
    \/ last.op = "updateFilter" /\ last.ret # "warn"

\* the last call was clearFilter(), directly or through the empty string
FilterCleared ==
    \/ last.op = "clearFilter"
    \/ last.op = "applyFilter" /\ EmptyText(last.filter)

\* C1: after a filter pass, every node and the root hold in subMatchCount the
\* number of their strict descendants whose match flag is true, whatever the
\* mode, the options, the predicate and the filter applied before.
C1_SubMatchCount ==
    FilterPassRan =>
        \A n \in NodeIds(nodes) :
            /\ IsSet(nodes[n].subMatchCount)
            /\ Val(nodes[n].subMatchCount) = MatchingDescendants(nodes, n)

\* C1 happens: a pass over a tree that an earlier filter had counted leaves a
\* node with two matching descendants, counted two levels up and at the root
C1_Witness ==
    /\ FilterPassRan
    /\ last.pre.filterMode # "null"
    /\ last.pre.counted
    /\ Val(nodes[Root].subMatchCount) = 2
    /\ \E n \in NodeIds(nodes) \ {Root} :
          Val(nodes[n].subMatchCount) = 1 /\ nodes[n].parent # Root

\* the predicate never answers "skip" or "branch" on a node of the tree
PlainPredicate(filter, opts) ==
    \A n \in NodeIds(nodes) \ {Root} :
        predicateResult(tree, filter, opts, nodes[n].title) \in {"true", "false"}

\* the last call was filterNodes without leavesOnly and with a plain predicate
NodeModePass ==
    /\ last.op = "applyFilter"
    /\ ~EmptyText(last.filter)
    /\ ~last.branchMode
    /\ ~last.opts.leavesOnly
    /\ PlainPredicate(last.filter, last.opts)

\* C2: after filterNodes with a plain predicate, a node other than the root
\* has match = true exactly when the predicate holds of it.
C2_MatchIsPredicate ==
    NodeModePass =>
        \A n \in NodeIds(nodes) \ {Root} :
            TruthyFlag(nodes[n].match)
                <=> predicateResult(tree, last.filter, last.opts, nodes[n].title) = "true"

\* C2 happens: below a collapsed node that does not match, a node matches,
\* and a filter was active before
C2_Witness ==
    /\ NodeModePass
    /\ last.pre.filterMode # "null"
    /\ \E n \in NodeIds(nodes) \ {Root} :
          /\ TruthyFlag(nodes[n].match)
          /\ nodes[n].parent # Root
          /\ ~nodes[nodes[n].parent].expanded
          /\ ~TruthyFlag(nodes[nodes[n].parent].match)

\* C3: after clearFilter no node, the root included, has a match flag, a
\* non-zero subMatchCount or a highlighted title, and filterMode is null.
C3_ClearFilterClears ==
    FilterCleared =>
        /\ tree.filterMode = "null"
        /\ \A n \in NodeIds(nodes) :
              /\ ~IsSet(nodes[n].match)
              /\ ~TruthyNum(nodes[n].subMatchCount)
              /\ ~IsSet(nodes[n].titleWithHighlight)

\* C3 happens: clearFilter() ran on a tree with counts and highlighted titles
C3_Witness ==
    /\ last.op = "clearFilter"
    /\ last.pre.filterMode # "null"
    /\ last.pre.highlighted
    /\ last.pre.counted
    /\ Len(nodes) > 2

\* what clearFilter is observed by: the filter fields and the expanded flag
\* of every node, and the filter state of the tree; a deleted match flag is
\* not told from a false one, a deleted counter not from zero
ObservedNode(node) ==
    [ match              |-> TruthyFlag(node.match),
      subMatchCount      |-> IF IsSet(node.subMatchCount)
                             THEN Val(node.subMatchCount) ELSE 0,
      titleWithHighlight |-> node.titleWithHighlight,
      expanded           |-> node.expanded,
      filterAutoExpanded |-> node.filterAutoExpanded ]

Observed(N, T) ==
    [ nodes          |-> [n \in NodeIds(N) |-> ObservedNode(N[n])],
      filterMode     |-> T.filterMode,
      lastFilterArgs |-> T.lastFilterArgs,
      classList      |-> T.classList,
      enableUpdate   |-> T.enableUpdate ]

\* C4: clearFilter() twice is clearFilter() once, and clearFilter() with no
\* filter active changes nothing that is observed.
C4_ClearFilterNoOp ==
    [][ (last'.op = "clearFilter" /\ tree.filterMode = "null")
            => Observed(nodes', tree') = Observed(nodes, tree) ]_vars

\* the half of C4 that the code keeps: a second clearFilter() changes nothing
C4_ClearFilterTwice ==
    last.op = "clearFilter" =>
        Observed(clearFilter(Here).n, clearFilter(Here).t) = Observed(nodes, tree)

\* C5: applyFilter with the empty string ends in the state clearFilter()
\* would have ended in, started from the same state.
C5_EmptyStringIsClear ==
    [][ (last'.op = "applyFilter" /\ EmptyText(last'.filter))
            => /\ nodes' = clearFilter(Here).n
               /\ tree' = clearFilter(Here).t
               /\ last'.thrown = clearFilter(Here).thrown ]_vars

\* C5 happens: the empty string was applied while a filter with matches and
\* highlighted titles was active
C5_Witness ==
    /\ last.op = "applyFilter"
    /\ EmptyText(last.filter)
    /\ last.pre.filterMode # "null"
    /\ last.pre.highlighted
    /\ last.pre.counted

----------------------------------------------------------------------------
(* Properties of the row traversals *)

RECURSIVE Path(_, _)
\* the positions, from the root down, of the children that lead to n
Path(N, n) ==
    IF N[n].parent = NoNode THEN <<>>
    ELSE Append(Path(N, N[n].parent), indexOf(N[N[n].parent].children, n))

\* p comes before q in depth-first pre-order: p is a proper prefix of q, or
\* p is smaller where they first differ
PathBefore(p, q) ==
    \/ Len(p) < Len(q) /\ \A i \in 1..Len(p) : p[i] = q[i]
    \/ \E i \in 1..Len(p) :
          /\ i <= Len(q)
          /\ p[i] < q[i]
          /\ \A j \in 1..(i - 1) : p[j] = q[j]

Before(N, n, m) == PathBefore(Path(N, n), Path(N, m))

\* n is not the root and all its ancestors below the root are expanded
Shown(N, n) ==
    /\ n # Root
    /\ \A a \in NodeIds(N) : (a # Root /\ IsAncestor(N, a, n)) => N[a].expanded

\* seq lists exactly the nodes of S, each once, in depth-first pre-order
ListsInOrder(N, seq, S) ==
    /\ {seq[i] : i \in 1..Len(seq)} = S
    /\ \A i, j \in 1..Len(seq) : i < j => Before(N, seq[i], seq[j])

\* the last call was a top-down visitRows over the visible rows, the start
\* node included, with no filter active
TopDownVisibleCall ==
    /\ last.op = "visitRows"
    /\ ~last.rows.reverse
    /\ ~last.rows.includeHidden
    /\ last.rows.includeSelf
    /\ tree.filterMode = "null"

\* C6: with no filter active, visitRows with includeHidden = false calls the
\* callback once for each non-root node whose ancestors below the root are
\* all expanded, in depth-first pre-order, and for no other node; started at
\* a visible node s it yields the part of that order from s on.
C6_VisibleRowsInOrder ==
    TopDownVisibleCall =>
        IF last.rows.start = NoNode
        THEN ListsInOrder(nodes, last.seq, {n \in NodeIds(nodes) : Shown(nodes, n)})
        ELSE Shown(nodes, last.rows.start) =>
                ListsInOrder(nodes, last.seq,
                    {n \in NodeIds(nodes) :
                        /\ Shown(nodes, n)
                        /\ (n = last.rows.start \/ Before(nodes, last.rows.start, n))})

\* C6 happens: a traversal from a start node at the second level passed a
\* collapsed node that has children, and went on to a top-level node after it
C6_Witness ==
    /\ TopDownVisibleCall
    /\ last.rows.start # NoNode
    /\ nodes[last.rows.start].parent # Root
    /\ Shown(nodes, last.rows.start)
    /\ Len(last.seq) >= 2
    /\ nodes[last.seq[Len(last.seq)]].parent = Root
    /\ \E i \in 1..Len(last.seq) :
          HasChildNodes(nodes, last.seq[i]) /\ ~nodes[last.seq[i]].expanded

\* the top-down order of the rows under the visibility rules of the last call
TopDownRows(includeHidden) ==
    visitRows(nodes, tree, NoResult(nodes),
              RowOpts(NoNode, TRUE, includeHidden, FALSE)).seq

\* the step bottom-up from node n
StepUp(n, includeHidden) ==
    visitRowsUp(nodes, tree, NoResult(nodes), RowOpts(n, TRUE, includeHidden, TRUE)).seq

RECURSIVE IterateUp(_, _, _)
\* the nodes reached by stepping bottom-up from n until no node is yielded
IterateUp(n, includeHidden, fuel) ==
    IF fuel = 0 \/ Len(StepUp(n, includeHidden)) = 0 THEN <<>>
    ELSE <<StepUp(n, includeHidden)[1]>>
         \o IterateUp(StepUp(n, includeHidden)[1], includeHidden, fuel - 1)

Reverse(seq) == [i \in 1..Len(seq) |-> seq[Len(seq) + 1 - i]]

\* the last call was a bottom-up step from a node that is a row
BottomUpCall ==
    /\ last.op = "visitRows"
    /\ last.rows.reverse
    /\ last.rows.start # NoNode
    /\ indexOf(TopDownRows(last.rows.includeHidden), last.rows.start) >= 0

----------------------------------------------------------------------------
(* Properties of the viewport pass *)

\* n is a row of the visible order: its ancestors below the root are
\* expanded and, under a "hide" filter, neither n nor an ancestor is pruned
RowVisible(N, T, n) ==
    /\ Shown(N, n)
    /\ \A a \in NodeIds(N) \ {Root} :
          (a = n \/ IsAncestor(N, a, n)) => ~(enableFilter(T) /\ FilterPruned(N, a))

VisibleRows(N, T) == {n \in NodeIds(N) : RowVisible(N, T, n)}

\* the number of visible rows before n in depth-first pre-order
RowNumber(N, T, n) ==
    Cardinality({m \in VisibleRows(N, T) : Before(N, m, n)})

\* the last call was a viewport pass that completed
ViewportPassRan ==
    /\ last.op \in {"renumber", "scroll"}
    /\ last.thrown = NoError

RenumberRan ==
    /\ last.op = "renumber"
    /\ last.range.has
    /\ last.thrown = NoError

\* C10: after renumber(range) completes, a node holds a row surface exactly
\* when it is a visible row and its row index lies in [startIdx, endIdx].
C10_SurfaceIffInRange ==
    RenumberRan =>
        \A n \in NodeIds(nodes) :
            IsSet(nodes[n].rowElem)
                <=> /\ RowVisible(nodes, tree, n)
                    /\ nodes[n].rowIdx >= last.range.start
                    /\ nodes[n].rowIdx <= last.range.end

\* the half of C10 that the code keeps: the visible rows hold a surface
\* exactly when their row index lies in the range
C10_VisibleRowsInRange ==
    RenumberRan =>
        \A n \in VisibleRows(nodes, tree) :
            IsSet(nodes[n].rowElem)
                <=> /\ nodes[n].rowIdx >= last.range.start
                    /\ nodes[n].rowIdx <= last.range.end

----------------------------------------------------------------------------
(* Properties of the filter pass and the rendering *)

\* the world in which the reset pass starts: the arguments stored and the
\* updates suspended
PassStart(w, filter, branchMode, opts) ==
    enableUpdate(storeFilterArgs(w, filter, branchMode, opts), FALSE)

\* the world in which the evaluation pass has ended
PassEnd(w, filter, branchMode, opts) ==
    filterPassBody(PassStart(w, filter, branchMode, opts), filter, branchMode, opts)

\* the row surface of every node
Surfaces(N) == [n \in NodeIds(N) |-> N[n].rowElem]

\* the call that is made is a complete filter pass with updates enabled
FilterPassStarts ==
    /\ last'.op = "applyFilter"
    /\ ~EmptyText(last'.filter)
    /\ tree.enableUpdate

\* C11: between the start of the reset pass and the end of the evaluation
\* pass of applyFilter no row surface of any node is rendered: the surfaces
\* at the end of the evaluation pass are those the call found.
C11_NoRenderInsidePass ==
    [][ FilterPassStarts =>
            Surfaces(PassEnd(Here, last'.filter, last'.branchMode, last'.opts).n)
                = Surfaces(nodes) ]_vars

\* the part of C11 the code keeps: inside the pass no viewport pass runs (no
\* row index and no content height is written)
C11_NoViewportPassInside ==
    [][ FilterPassStarts =>
            /\ PassEnd(Here, last'.filter, last'.branchMode, last'.opts).t.height
                  = tree.height
            /\ \A n \in NodeIds(nodes) :
                  PassEnd(Here, last'.filter, last'.branchMode, last'.opts).n[n].rowIdx
                      = nodes[n].rowIdx ]_vars

\* a viewport pass has served the state: running updateViewport now would
\* find every row index, every row surface and the content height as they are
ViewportServed ==
    /\ updateViewport(Here).n = nodes
    /\ updateViewport(Here).t = tree

\* the operations that can alter which nodes are visible
VisibilityTriggers == {"scroll", "setExpanded", "addChildren", "applyFilter", "clearFilter"}

\* C12: every trigger that can alter which nodes are visible (a scroll
\* event, setExpanded, addChildren, applying or clearing a filter) is served
\* by an updateViewport pass, never by none: once the trigger has been
\* handled with updates enabled, the viewport is the one such a pass leaves.
C12_TriggerServedByPass ==
    (/\ last.op \in VisibilityTriggers
     /\ last.thrown = NoError
     /\ tree.enableUpdate) => ViewportServed

\* the part of C12 the code keeps: a scroll event and a filter call are
\* served by a pass
C12_ScrollAndFilterServed ==
    (/\ last.op \in {"scroll", "applyFilter", "clearFilter"}
     /\ last.thrown = NoError
     /\ tree.enableUpdate) => ViewportServed

----------------------------------------------------------------------------
(* The worked example: the tree [A[B,C[D]],E] filtered with "D" *)

E == <<"E">>

\* the data of the tree [A[B,C[D]],E]
ExampleTree == <<Folder(A, <<Leaf(B), Folder(C, <<Leaf(D)>>)>>), Leaf(E)>>

\* filterNodes("D", {mode: "hide", autoExpand: true})
ExampleFilter ==
    FilterCall(TextFilter(D), FilterOpts("hide", FALSE, TRUE, TRUE, FALSE, FALSE, TRUE))

\* the data of the example arrives in the new tree
LoadExample ==
    /\ steps < MaxOps
    /\ Len(nodes) = 1
    /\ Commit(loadReceived(Here, Root, ExampleTree), SimpleCall("load", Root, FALSE))

\* the filter call of the example
FilterExample ==
    /\ steps < MaxOps
    /\ Commit(filterNodes(Here, ExampleFilter.filter, ExampleFilter.opts),
              Call("applyFilter", NoNode, FALSE, ExampleFilter.filter, FALSE,
                   ExampleFilter.opts, NoRange, <<>>))

NextExample ==
    \/ LoadExample
    \/ SetExpanded
    \/ FilterExample
    \/ ClearFilter
    \/ Scroll

SpecExample == Init /\ [][NextExample]_vars

\* the node with this title (the titles of the example are distinct)
Titled(t) == CHOOSE n \in NodeIds(nodes) \ {Root} : nodes[n].title = t

\* the example tree is loaded and the last call was the filter of the example
ExampleFiltered ==
    /\ Len(nodes) = 6
    /\ last.op = "applyFilter"
    /\ last.filter = ExampleFilter.filter
    /\ last.thrown = NoError

\* the rows shown after the render that ends the call
RowsShown == {TopDownRows(FALSE)[i] : i \in 1..Len(TopDownRows(FALSE))}

\* only D matches, C and the root count one matching descendant, C is expanded
ExampleMarks ==
    /\ \A n \in NodeIds(nodes) \ {Root} :
          TruthyFlag(nodes[n].match) <=> n = Titled(D)
    /\ nodes[Titled(C)].subMatchCount = Some(1)
    /\ nodes[Root].subMatchCount = Some(1)
    /\ nodes[Titled(C)].expanded

----------------------------------------------------------------------------
(* The match counter in branch mode *)

\* the last call was a complete pass of filterBranches that returned its count
BranchPassReturned ==
    /\ last.op = "applyFilter"
    /\ ~EmptyText(last.filter)
    /\ last.branchMode
    /\ last.ret = "count"

\* the nodes for which the predicate of the last call answers true
DirectMatches ==
    {n \in NodeIds(nodes) \ {Root} :
        predicateResult(tree, last.filter, last.opts, nodes[n].title) = "true"}

\* the nodes whose match flag is true
Matched == {n \in NodeIds(nodes) \ {Root} : TruthyFlag(nodes[n].match)}

\* C14 as stated: in branch mode the number returned by applyFilter equals
\* the number of nodes matched directly by the predicate; a node matched only
\* by inheritance from its parent is not counted.
C14_InheritedNotCounted ==
    (/\ BranchPassReturned
     /\ PlainPredicate(last.filter, last.opts)
     /\ ~last.opts.leavesOnly) =>
        last.count = Cardinality(DirectMatches)

\* C14 amended: in branch mode the number returned by applyFilter equals the
\* number of nodes whose match flag is true after the pass; a node matched
\* only by inheritance from its parent is counted like a direct match.
C14_CountsEveryMatch ==
    BranchPassReturned => last.count = Cardinality(Matched)

\* C14 happens: filterBranches returned after a pass in which a node the
\* predicate rejects was matched by inheritance from its matched parent
C14_Witness ==
    /\ BranchPassReturned
    /\ PlainPredicate(last.filter, last.opts)
    /\ \E n \in Matched \ DirectMatches : nodes[n].parent \in DirectMatches

----------------------------------------------------------------------------
(* Reuse of the row surfaces when the range shifts by one row *)

\* the rows the viewport pass numbers, in order
NumberedRows == TopDownRows(FALSE)

\* the rows whose row index lies in the set S
RowsAt(S) == {NumberedRows[i] : i \in {j \in 1..Len(NumberedRows) : j - 1 \in S}}

\* the call that is made is renumber of the non-empty range of the completed
\* renumber before it, shifted by one row
RangeShifts ==
    /\ last'.shifted
    /\ last.range.start <= last.range.end

----------------------------------------------------------------------------
(* updateFilter with nothing to re-apply *)

\* no filter is active or the re-application is disabled
NothingToReapply ==
    \/ tree.filterMode = "null"
    \/ ~IsSet(tree.lastFilterArgs)
    \/ ~tree.autoApply

\* C16: updateFilter() called when no filter is active or autoApply is
\* disabled raises no exception, changes no node (match, subMatchCount,
\* titleWithHighlight, expanded, row index and surface included), leaves
\* filterMode, the stored arguments and every other field of the tree as
\* they are, and only emits a warning.
C16_UpdateFilterNoOp ==
    [][ (last'.op = "updateFilter" /\ NothingToReapply) =>
            /\ nodes' = nodes
            /\ tree' = tree
            /\ last'.thrown = NoError
            /\ last'.ret = "warn" ]_vars

\* C16 happens: updateFilter() was called with autoApply disabled while a
\* filter with matches was active
C16_Witness ==
    /\ last.op = "updateFilter"
    /\ last.ret = "warn"
    /\ ~tree.autoApply
    /\ last.pre.filterMode # "null"
    /\ last.pre.counted
    /\ IsSet(tree.lastFilterArgs)

\* C16 happens also with no filter active
C16_WitnessInactive ==
    /\ last.op = "updateFilter"
    /\ last.ret = "warn"
    /\ tree.autoApply
    /\ last.pre.filterMode = "null"
    /\ Len(nodes) > 2

----------------------------------------------------------------------------
(* The root is no row *)

\* the nodes a row traversal has handed to the callback
Yielded == {last.seq[i] : i \in 1..Len(last.seq)}

\* C17: after any sequence of operations the root node has never been passed
\* to the callback of a row traversal, carries no row index assigned by
\* renumber, and holds no row surface.
C17_RootIsNoRow ==
    /\ (last.op = "visitRows" => Root \notin Yielded)
    /\ nodes[Root].rowIdx = 0
    /\ ~IsSet(nodes[Root].rowElem)

\* the part of C17 the code keeps: no row traversal yields the root and the
\* root keeps the row index its constructor gave it
C17_RootNotTraversed ==
    /\ (last.op = "visitRows" => Root \notin Yielded)
    /\ nodes[Root].rowIdx = 0

----------------------------------------------------------------------------
(* Trees with fewer than two top-level nodes *)

\* the last call was a row traversal or a viewport pass with a range
TraversalOrPass ==
    \/ last.op \in {"visitRows", "scroll"}
    \/ last.op = "renumber" /\ last.range.has

\* C18: on a tree whose root has no children, visitRows in both directions
\* and the viewport pass complete without an error, yield no node, create no
\* surface and leave the content height at 0; with exactly one top-level
\* node they complete without an error as well.
C18_SmallTreeTolerated ==
    (TraversalOrPass /\ Len(nodes[Root].children) <= 1) =>
        /\ last.thrown = NoError
        /\ Len(nodes[Root].children) = 0 =>
              /\ last.seq = <<>>
              /\ \A n \in NodeIds(nodes) : ~IsSet(nodes[n].rowElem)
              /\ (last.op # "visitRows" => tree.height = Some(0))

\* the part of C18 the code keeps: the row traversals complete on such trees,
\* and yield nothing when the root has no children
C18_TraversalTolerates ==
    (last.op = "visitRows" /\ Len(nodes[Root].children) <= 1) =>
        /\ last.thrown = NoError
        /\ Len(nodes[Root].children) = 0 => last.seq = <<>>

----------------------------------------------------------------------------
(* Rows under a "dim" filter *)

\* the nodes that are rows when no filter is active: all their ancestors
\* below the root are expanded
ShownNodes == {n \in NodeIds(nodes) : Shown(nodes, n)}

\* the number of such nodes before n in depth-first pre-order
ShownBefore(n) == Cardinality({m \in ShownNodes : Before(nodes, m, n)})

----------------------------------------------------------------------------
(* The fuzzy highlight as a function of the query and the title *)

MaxText == 4
MaxQuery == 2

\* the characters titles and queries are made of
FuzzyChars == {"a", "b", "B"}

\* the sequences over S of length 1..n
Words(S, n) == UNION {[1..k -> S] : k \in 1..n}

FooBar == <<"F", "o", "o", "B", "a", "r">>

\* the texts the predicate is called with, and the queries it is built from
FuzzyTexts == Words(FuzzyChars, MaxText) \cup {FooBar}
FuzzyQueries == Words(FuzzyChars, MaxQuery) \cup {<<"f", "b">>}

\* a fuzzy filter for `query` has been compiled; its predicate is about to
\* be called for a node whose text is `text`
InitFuzzy ==
    /\ steps = 0
    /\ nodes = <<RootNode>>
    /\ \E cfg \in ConfigChoices : tree = NewTree(cfg)
    /\ \E text \in FuzzyTexts, query \in FuzzyQueries :
          last = [op |-> "fuzzy", text |-> text, query |-> query,
                  matched |-> FALSE, indices |-> <<>>, marked |-> <<>>]

\* the predicate is called: `res = text.match(re)`, and on a match the
\* highlight is computed by _markFuzzyMatchedChars
MarkFuzzy ==
    /\ steps < 1
    /\ last.op = "fuzzy"
    /\ steps' = steps + 1
    /\ UNCHANGED <<nodes, tree>>
    /\ last' = IF FuzzyMatch(last.text, last.query)
               THEN [last EXCEPT
                       !.op = "markFuzzy",
                       !.matched = TRUE,
                       !.indices = fuzzyIndices(fuzzyGroups(last.text, last.query, 1),
                                                1, <<>>),
                       !.marked = markFuzzyMatchedChars(
                                      last.text,
                                      fuzzyGroups(last.text, last.query, 1),
                                      tree.escapeTitles)]
               ELSE [last EXCEPT !.op = "markFuzzy"]

SpecFuzzy == InitFuzzy /\ [][MarkFuzzy]_vars

\* q is a subsequence of t, ignoring case
IsSubsequence(q, t) ==
    \E f \in [1..Len(q) -> 1..Len(t)] :
        /\ \A i, j \in 1..Len(q) : i < j => f[i] < f[j]
        /\ \A i \in 1..Len(q) : SameChar(t[f[i]], q[i])

\* the tokens that open and close a highlight
MarkTokens == {START_MARKER, END_MARKER, "<mark>", "</mark>"}

\* the i-th index is the place of a wrapped character: in the marked text it
\* is shifted by the two tokens of every highlight before it
WrappedAt(i) ==
    /\ last.marked[last.indices[i] + 2 * i - 1] \in MarkTokens
    /\ last.marked[last.indices[i] + 2 * i] = last.text[last.indices[i] + 1]
    /\ last.marked[last.indices[i] + 2 * i + 1] \in MarkTokens

\* C20: when the query is a case-insensitive subsequence of the title, the
\* highlight indices of _markFuzzyMatchedChars are one per query character,
\* strictly increasing, inside the title, the title character at the i-th
\* index is the i-th query character ignoring case, each such position is
\* wrapped on its own and no other character is wrapped.
C20_FuzzyIndices ==
    (last.op = "markFuzzy" /\ IsSubsequence(last.query, last.text)) =>
        /\ last.matched
        /\ Len(last.indices) = Len(last.query)
        /\ \A i \in 1..Len(last.indices) :
              /\ 0 <= last.indices[i] /\ last.indices[i] < Len(last.text)
              /\ i > 1 => last.indices[i - 1] < last.indices[i]
              /\ SameChar(last.text[last.indices[i] + 1], last.query[i])
              /\ WrappedAt(i)
        /\ Len(last.marked) = Len(last.text) + 2 * Len(last.query)
        /\ SelectSeq(last.marked, LAMBDA tok : tok \notin MarkTokens) = last.text

\* the example of C20: "fb" against "FooBar" gives the indices 0 and 3
C20_FooBar ==
    (last.op = "markFuzzy" /\ last.text = FooBar /\ last.query = <<"f", "b">>) =>
        last.indices = <<0, 3>>

\* C20 happens: "fb" was matched against "FooBar" and the highlight computed
C20_Witness ==
    /\ last.op = "markFuzzy"
    /\ last.text = FooBar
    /\ last.query = <<"f", "b">>
    /\ last.matched
    /\ last.marked = <<"<mark>", "F", "</mark>", "o", "o", "<mark>", "B", "</mark>", "a", "r">>

----------------------------------------------------------------------------
(* The three states of a node's children *)

\* node.children is null ("unknown"), an empty array or a populated one
ChildrenState(N, n) ==
    IF N[n].childrenNull THEN "unknown"
    ELSE IF Len(N[n].children) = 0 THEN "empty"
    ELSE "populated"

\* C21: after addChildren(parent, data) the children of the parent are
\* "empty" or "populated", never "unknown".
C21_AttachedNeverUnknown ==
    (last.op = "addChildren" /\ last.thrown = NoError) =>
        ChildrenState(nodes, last.node) # "unknown"

\* what the code does instead: no call ever leaves a node with an empty
\* children array; a node without child nodes is always "unknown"
C21_NeverEmpty ==
    \A n \in NodeIds(nodes) : ChildrenState(nodes, n) # "empty"

----------------------------------------------------------------------------
(* The highlighted title as a function of the title and the filter string *)

MaxTitle == 3

\* the characters of titles: letters and the characters HTML escapes
TitleChars == {"a", "A", "<", "&", "\""}

HighlightTitles == Words(TitleChars, MaxTitle)
HighlightQueries == Words({"a", "<", "&"}, MaxQuery)

\* a filter for `query` has been compiled, fuzzy or literal, with highlight;
\* its predicate is about to be called for a node with this title
InitHighlight ==
    /\ steps = 0
    /\ nodes = <<RootNode>>
    /\ \E cfg \in ConfigChoices : tree = NewTree(cfg)
    /\ \E title \in HighlightTitles, query \in HighlightQueries, fuzzy \in BOOLEAN :
          last = [op |-> "title", title |-> title, query |-> query,
                  fuzzy |-> fuzzy, matched |-> FALSE, marked |-> <<>>]

\* the options of that filter
HighlightOpts(fuzzy) == FilterOpts("hide", FALSE, FALSE, TRUE, fuzzy, FALSE, TRUE)

\* the predicate is called: on a match it computes titleWithHighlight
Highlight ==
    /\ steps < 1
    /\ last.op = "title"
    /\ steps' = steps + 1
    /\ UNCHANGED <<nodes, tree>>
    /\ last' = IF predicateResult(tree, TextFilter(last.query),
                                  HighlightOpts(last.fuzzy), last.title) = "true"
               THEN [last EXCEPT
                       !.op = "highlight",
                       !.matched = TRUE,
                       !.marked = highlightMarkup(tree, TextFilter(last.query),
                                                  HighlightOpts(last.fuzzy), last.title)]
               ELSE [last EXCEPT !.op = "highlight"]

SpecHighlight == InitHighlight /\ [][Highlight]_vars

\* the tokens of a markup without the highlight tags
StripTags(toks) == SelectSeq(toks, LAMBDA tok : tok \notin {"<mark>", "</mark>"})

\* the number of opening tags
OpenTags(toks) == Len(SelectSeq(toks, LAMBDA tok : tok = "<mark>"))

RECURSIVE LiteralSpans(_, _, _)
\* the number of matches of pat in text from position i on, left to right
\* and without overlap
LiteralSpans(text, pat, i) ==
    IF i > Len(text) THEN 0
    ELSE IF MatchesAt(text, pat, i) THEN 1 + LiteralSpans(text, pat, i + Len(pat))
    ELSE LiteralSpans(text, pat, i + 1)

\* the number of matched spans of the last call
MatchedSpans ==
    IF last.fuzzy THEN Len(last.query) ELSE LiteralSpans(last.title, last.query, 1)

\* every opening tag is followed by its closing tag, with text in between
TagsPaired(toks) ==
    \A i \in 1..Len(toks) :
        /\ toks[i] = "<mark>" =>
              \E j \in (i + 2)..Len(toks) :
                  /\ toks[j] = "</mark>"
                  /\ \A k \in (i + 1)..(j - 1) : toks[k] \notin {"<mark>", "</mark>"}
        /\ toks[i] = "</mark>" =>
              \E j \in 1..(i - 2) :
                  /\ toks[j] = "<mark>"
                  /\ \A k \in (j + 1)..(i - 1) : toks[k] \notin {"<mark>", "</mark>"}

\* C22: with escapeTitles and highlight, in literal and in fuzzy mode,
\* removing the highlight tags from titleWithHighlight gives exactly the
\* HTML-escaped title, and there is one opening tag, with its closing tag,
\* for every matched span.
C22_HighlightOverEscaped ==
    (last.op = "highlight" /\ last.matched /\ tree.escapeTitles) =>
        /\ StripTags(last.marked) = escapeHtml(last.title)
        /\ OpenTags(last.marked) = MatchedSpans
        /\ TagsPaired(last.marked)

\* C22 happens: a match on an escaped character next to a character that is
\* escaped but not matched
C22_Witness ==
    /\ last.op = "highlight"
    /\ last.matched
    /\ tree.escapeTitles
    /\ ~last.fuzzy
    /\ last.title = <<"<", "a", "&">>
    /\ last.query = <<"<">>
    /\ last.marked = <<"<mark>", "&lt;", "</mark>", "a", "&amp;">>

----------------------------------------------------------------------------
(* What a callback's answer does to a traversal *)

\* the last call was a top-down visitRows whose callback answered "skip" at
\* a node it was called on
SkippedInRows ==
    /\ last.op = "visitRows"
    /\ ~last.rows.reverse
    /\ last.thrown = NoError
    /\ last.cb.res = "skip"
    /\ last.cb.node \in Yielded

\* C23: when the callback of the top-down visitRows returns "skip" for a
\* node, no descendant of that node is passed to the callback.
C23_SkipPrunesRows ==
    SkippedInRows =>
        \A m \in Yielded : ~IsAncestor(nodes, last.cb.node, m)

\* what the code does instead: visitRows looks at the callback's answer only
\* to see whether it is false; with "skip" it yields the same nodes as with
\* a callback that returns nothing
C23_SkipIgnored ==
    SkippedInRows =>
        last.seq = visitRows(nodes, tree, NoResult(nodes), last.rows).seq

\* the traversals that take a callback
TraversalOps == {"visit", "visitParents", "visitSiblings", "visitRows"}

\* the last call was such a traversal and it came back
Traversed == last.op \in TraversalOps /\ last.thrown = NoError

\* the callback answered false at a node it was called on
AnsweredFalse == last.cb.res = "false" /\ last.cb.node \in Yielded

\* the nodes a node traversal has to pass to a callback that never answers
\* false: for visit the descendants of the start (and the start), without
\* those below a node where the callback answered "skip"; for visitParents
\* the ancestors; for visitSiblings the children of the parent
Eligible ==
    LET start == last.node
        own == IF last.flag THEN {start} ELSE {}
        skipped(m) ==
            /\ last.cb.res = "skip"
            /\ (last.cb.node = start => last.flag)
            /\ (last.cb.node = start \/ IsAncestor(nodes, start, last.cb.node))
            /\ IsAncestor(nodes, last.cb.node, m)
    IN  CASE last.op = "visit" ->
               {m \in NodeIds(nodes) : (IsAncestor(nodes, start, m) \/ m \in own)
                                       /\ ~skipped(m)}
          [] last.op = "visitParents" ->
               {m \in NodeIds(nodes) : IsAncestor(nodes, m, start)} \cup own
          [] last.op = "visitSiblings" ->
               {m \in NodeIds(nodes) : nodes[m].parent = nodes[start].parent
                                       /\ m # start} \cup own
          [] OTHER -> Yielded

\* C24: in visit, visitRows, visitParents and visitSiblings, once the
\* callback returns false no further node is passed to it and the call
\* returns false; a traversal whose callback never returns false passes
\* every eligible node and does not return false.
C24_FalseIffStopped ==
    Traversed =>
        /\ AnsweredFalse =>
               /\ last.ret = "false"
               /\ last.seq[Len(last.seq)] = last.cb.node
        /\ ~AnsweredFalse =>
               /\ last.ret # "false"
               /\ Yielded = Eligible

\* the first half: a false answer ends the traversal at that node and is
\* what the call returns
C24_FalseStops ==
    Traversed /\ AnsweredFalse =>
        /\ last.ret = "false"
        /\ last.seq[Len(last.seq)] = last.cb.node

\* the node traversals return false only after a false answer, and pass
\* every eligible node otherwise
C24_NodeTraversalsComplete ==
    Traversed /\ last.op # "visitRows" /\ ~AnsweredFalse =>
        /\ last.ret # "false"
        /\ Yielded = Eligible

\* visitRows returns false without a false answer only on a tree whose root
\* has no children, where it returns before it looks at its arguments
C24_RowsFalseOnlyWhenEmpty ==
    Traversed /\ last.op = "visitRows" /\ ~AnsweredFalse /\ last.ret = "false" =>
        hasChildren(nodes, Root) # "true"

----------------------------------------------------------------------------
(* A predicate that answers "skip" *)

\* the last call ran the evaluation pass of a filter
EvaluationRan == last.op = "applyFilter" /\ ~EmptyText(last.filter)

\* what the predicate of the last call answers at node n
Answer(n) == predicateResult(tree, last.filter, last.opts, nodes[n].title)

\* the nodes the evaluation pass of the last call called the predicate on
Evaluated ==
    {m \in {treeVisit(nodes, evalReturns(nodes, tree, last.filter, last.opts,
                          last.opts.leavesOnly /\ ~last.branchMode)).seq[i] :
              i \in 1..Len(treeVisit(nodes, evalReturns(nodes, tree, last.filter,
                          last.opts, last.opts.leavesOnly /\ ~last.branchMode)).seq)} :
        ~notEvaluated(nodes, last.opts.leavesOnly /\ ~last.branchMode, m)}

\* the number of matching strict descendants of a outside the subtree of n
MatchingOutside(a, n) ==
    Cardinality({m \in NodeIds(nodes) :
                    /\ IsAncestor(nodes, a, m)
                    /\ m # n /\ ~IsAncestor(nodes, n, m)
                    /\ TruthyFlag(nodes[m].match)})

\* C25: when the predicate returns "skip" for node n, after the pass n and
\* every descendant of n have match = false, the predicate was evaluated on
\* no strict descendant of n, and no ancestor's subMatchCount counts a node
\* of n's subtree; when it returns false for n, the children of n are still
\* evaluated.
C25_SkipPrunesSubtree ==
    EvaluationRan =>
        \A n \in Evaluated :
            /\ Answer(n) = "skip" =>
                   /\ nodes[n].match = Some(FALSE)
                   /\ \A m \in NodeIds(nodes) : IsAncestor(nodes, n, m) =>
                          /\ nodes[m].match = Some(FALSE)
                          /\ m \notin Evaluated
                   /\ \A a \in NodeIds(nodes) : IsAncestor(nodes, a, n) =>
                          nodes[a].subMatchCount = Some(MatchingOutside(a, n))
            /\ Answer(n) = "false" /\ HasChildArray(nodes, n) =>
                   \A i \in 1..Len(nodes[n].children) :
                       \/ nodes[n].children[i] \in Evaluated
                       \/ notEvaluated(nodes, last.opts.leavesOnly /\ ~last.branchMode,
                                       nodes[n].children[i])

\* C25 happens: the predicate answered "skip" at a node whose child it would
\* have matched, and false at another node whose child matched
C25_Witness ==
    /\ EvaluationRan
    /\ \E n \in Evaluated, m \in NodeIds(nodes) :
          /\ Answer(n) = "skip"
          /\ nodes[m].parent = n
          /\ Answer(m) = "true"
          /\ nodes[m].match = Some(FALSE)

\* C25, its second half happens: the predicate answered false at a node and
\* a child of that node matched
C25_WitnessFalse ==
    /\ EvaluationRan
    /\ \E n \in Evaluated, m \in Evaluated :
          /\ Answer(n) = "false"
          /\ nodes[m].parent = n
          /\ nodes[m].match = Some(TRUE)

----------------------------------------------------------------------------
(* leavesOnly *)

\* the last call ran the evaluation pass with the leavesOnly option set
LeavesOnlyPass == EvaluationRan /\ last.opts.leavesOnly

\* the predicate of the last call answers that n matches
AnswersMatch(n) == Answer(n) \in {"true", "branch"}

\* n has a direct match: the predicate matched it and its match flag is set
DirectMatch(n) == AnswersMatch(n) /\ nodes[n].match = Some(TRUE)

\* n lies below a node where the predicate answers "skip"
BelowSkip(n) ==
    \E a \in NodeIds(nodes) \ {Root} : IsAncestor(nodes, a, n) /\ Answer(a) = "skip"

\* C26 as claimed: with leavesOnly, in filterNodes and in filterBranches, no
\* node that has children ends the pass with a direct match.
C26_LeavesOnlyBothModes ==
    LeavesOnlyPass =>
        \A n \in NodeIds(nodes) \ {Root} : HasChildArray(nodes, n) => ~DirectMatch(n)

\* C26: with leavesOnly, filterNodes calls the predicate on a node if and
\* only if the node has no child list: a node with children keeps the match
\* flag of the reset, a node without has the flag the predicate's answer
\* gives; filterBranches ignores leavesOnly and matches every node the
\* predicate matches that is not below a "skip".
C26_LeavesOnlyInFilterNodes ==
    LeavesOnlyPass =>
        \A n \in NodeIds(nodes) \ {Root} :
            IF last.branchMode
            THEN AnswersMatch(n) /\ ~BelowSkip(n) => nodes[n].match = Some(TRUE)
            ELSE IF HasChildArray(nodes, n)
            THEN nodes[n].match = Absent /\ n \notin Evaluated
            ELSE /\ n \in Evaluated
                 /\ nodes[n].match =
                        (IF AnswersMatch(n) THEN Some(TRUE)
                         ELSE IF Answer(n) = "skip" THEN Some(FALSE)
                         ELSE Absent)

\* C26 happens: filterNodes with leavesOnly ran on a tree where the predicate
\* matches a node with children and a node without
C26_Witness ==
    /\ LeavesOnlyPass
    /\ ~last.branchMode
    /\ \E n, m \in NodeIds(nodes) \ {Root} :
          /\ HasChildArray(nodes, n) /\ AnswersMatch(n)
          /\ ~HasChildArray(nodes, m) /\ DirectMatch(m)

----------------------------------------------------------------------------
(* autoExpand *)

\* after a pass with this call, m has a match of its own: its match flag is
\* set and it was not matched only because its parent was
DirectlyMatched(N, T, call, m) ==
    /\ N[m].match = Some(TRUE)
    /\ ~matchedByBranch(N, predicateResult(T, call.filter, call.opts, N[m].title),
                        call.branchMode, m)

\* the step is a filterNodes or filterBranches call that ran the evaluation
\* pass, and n is a node whose expanded flag it changed
PassChangedExpanded(n) ==
    /\ last'.op = "applyFilter"
    /\ ~EmptyText(last'.filter)
    /\ n \in NodeIds(nodes)
    /\ nodes'[n].expanded # nodes[n].expanded

\* C27: applyFilter changes the expanded flag only of collapsed strict
\* ancestors of a directly matching node, and only with autoExpand; the
\* matching node itself and every other node keep their flag, and the nodes
\* expanded this way are tagged as auto-expanded.
C27_OnlyAncestorsExpand ==
    [][\A n \in NodeIds(nodes) :
          PassChangedExpanded(n) =>
              /\ last'.opts.autoExpand
              /\ ~nodes[n].expanded
              /\ nodes'[n].filterAutoExpanded
              /\ \E m \in NodeIds(nodes) :
                    /\ IsAncestor(nodes, n, m)
                    /\ DirectlyMatched(nodes', tree, last', m)]_vars

\* what the code does: the walk up from a direct match starts at the match
\* itself, so with autoExpand a collapsed matching node is expanded and
\* tagged like its ancestors; apart from that only the render pass that
\* ends the call touches a flag, that of the second top-level node
C27_MatchItselfExpands ==
    [][\A n \in NodeIds(nodes) :
          PassChangedExpanded(n) =>
              \/ /\ HasChildArray(nodes, Root)
                 /\ Len(nodes[Root].children) >= 2
                 /\ n = nodes[Root].children[2]
              \/ /\ last'.opts.autoExpand
                 /\ ~nodes[n].expanded
                 /\ nodes'[n].filterAutoExpanded
                 /\ \E m \in NodeIds(nodes) :
                       /\ m = n \/ IsAncestor(nodes, n, m)
                       /\ DirectlyMatched(nodes', tree, last', m)]_vars

----------------------------------------------------------------------------
(* clearFilter and the nodes the filter expanded *)

\* the step is a clearFilter() call
ClearFilterStep == last'.op = "clearFilter"

\* the call before the step was the user expanding node n by hand
UserExpandedBefore(n) == last.op = "setExpanded" /\ last.flag /\ last.node = n

\* C28: clearFilter collapses a node if and only if the filter auto-expanded
\* it and the user has not expanded or collapsed it since: a node the user
\* expanded after the auto-expand stays expanded, a node the filter did not
\* expand keeps its flag, and the root, which no user call can reach, is
\* collapsed again as it was before the first filter.
C28_CollapseUnlessUserActed ==
    [][ClearFilterStep =>
          /\ ~nodes'[Root].expanded
          /\ \A n \in NodeIds(nodes) :
                /\ UserExpandedBefore(n) => nodes'[n].expanded
                /\ nodes[n].expanded /\ ~nodes'[n].expanded =>
                       nodes[n].filterAutoExpanded]_vars

\* what the code does: clearFilter collapses every node below the root that
\* carries the tag and is expanded, whatever the user did since, and never
\* visits the root; the render pass it ends with forces the second top-level
\* node expanded
C28_CollapsesEveryTagged ==
    [][ClearFilterStep =>
          /\ nodes'[Root].expanded = nodes[Root].expanded
          /\ \A n \in NodeIds(nodes) \ {Root} :
                \/ nodes'[n].expanded = (nodes[n].expanded /\ ~nodes[n].filterAutoExpanded)
                \/ /\ Len(nodes[Root].children) >= 2
                   /\ n = nodes[Root].children[2]
                   /\ nodes'[n].expanded]_vars

----------------------------------------------------------------------------
(* The style hooks on the container *)

\* the classes _applyFilterImpl toggles on tree.element
FilterHooks ==
    {"wb-ext-filter-hide", "wb-ext-filter-dimm", "wb-ext-filter-hide-expanders"}

\* the hook that belongs to a filter mode
ModeHook(mode) == IF mode = "hide" THEN "wb-ext-filter-hide" ELSE "wb-ext-filter-dimm"

\* while a filter is active exactly one of the hide / dim hooks is set, the
\* one of the mode of the last applyFilter
ModeHookAgrees ==
    tree.filterMode # "null" =>
        tree.classList \cap {"wb-ext-filter-hide", "wb-ext-filter-dimm"}
            = {ModeHook(tree.filterMode)}

\* C29: after clearFilter() none of the style hooks applyFilter can set
\* (hide, dim, hide-expanders) remains set; while a filter is active exactly
\* one of the hide / dim hooks is set, that of the last applyFilter's mode.
C29_HooksGoneAfterClear ==
    /\ FilterCleared => tree.classList \cap FilterHooks = {}
    /\ ModeHookAgrees

\* what the code does: clearFilter removes the hide and dim hooks and leaves
\* the hide-expanders hook as the last pass set it
C29_ClearKeepsHideExpanders ==
    /\ FilterCleared =>
           tree.classList \cap FilterHooks \subseteq {"wb-ext-filter-hide-expanders"}
    /\ ModeHookAgrees

----------------------------------------------------------------------------
(* A row traversal started at a detached node *)

\* the last call was a row traversal whose start node is detached
DetachedStart ==
    /\ last.op = "visitRows"
    /\ last.rows.start # NoNode
    /\ last.rows.start \in Detached(nodes)

\* C30: a row traversal started at a detached node (no parent, or not among
\* its parent's children) ends with an error and passes no node to the
\* callback, top-down and bottom-up; it never returns normally.
C30_DetachedStartFails ==
    DetachedStart => last.thrown # NoError /\ last.seq = <<>>

\* what the code does: on a tree with top-level nodes a bottom-up traversal
\* from a detached node, and a top-down one from a node its parent does not
\* list, end with an error before any callback call
C30_UnlistedOrBottomUpFails ==
    /\ DetachedStart
    /\ hasChildren(nodes, Root) = "true"
    /\ last.rows.reverse \/ nodes[last.rows.start].parent # NoNode
    => last.thrown # NoError /\ last.seq = <<>>

\* a top-down traversal from a node without parent returns true without a
\* callback call, and on a tree without top-level nodes any traversal returns
\* false at once
C30_ParentlessReturns ==
    /\ DetachedStart
    /\ ~(/\ hasChildren(nodes, Root) = "true"
         /\ last.rows.reverse \/ nodes[last.rows.start].parent # NoNode)
    => /\ last.thrown = NoError
       /\ last.seq = <<>>
       /\ last.ret = (IF hasChildren(nodes, Root) = "true" THEN "true" ELSE "false")

----------------------------------------------------------------------------
(* What renumber leaves alone *)

\* the step is a renumber(opts) call
RenumberStep == last'.op = "renumber"

\* the fields of node n that belong to the tree and the filter, not to the
\* bookkeeping of traversal and rendering, are the same after the step
KeepsStructure(n) ==
    /\ nodes'[n].selected = nodes[n].selected
    /\ nodes'[n].childrenNull = nodes[n].childrenNull
    /\ nodes'[n].children = nodes[n].children
    /\ nodes'[n].parent = nodes[n].parent
    /\ nodes'[n].match = nodes[n].match
    /\ nodes'[n].subMatchCount = nodes[n].subMatchCount

\* a renumber call with startIdx or endIdx missing raises an assertion error
\* and changes nothing
MissingRangeRejected ==
    ~last'.range.has =>
        last'.thrown = "AssertionError" /\ nodes' = nodes /\ tree' = tree

\* C31: renumber and the row traversal it uses change only rowIdx, row
\* surfaces and the content height: expanded, selected, children, parent,
\* match and subMatchCount of every node are as before the call; a call with
\* a missing startIdx or endIdx raises an assertion error and changes nothing.
C31_RenumberKeepsNodes ==
    [][RenumberStep =>
          /\ Len(nodes') = Len(nodes)
          /\ \A n \in NodeIds(nodes) :
                KeepsStructure(n) /\ nodes'[n].expanded = nodes[n].expanded
          /\ MissingRangeRejected]_vars

\* what the code does: before it traverses, renumber sets the expanded flag
\* of the second top-level node; everything else the claim names is kept
C31_RenumberExpandsSecond ==
    [][RenumberStep =>
          /\ Len(nodes') = Len(nodes)
          /\ \A n \in NodeIds(nodes) :
                /\ KeepsStructure(n)
                /\ \/ nodes'[n].expanded = nodes[n].expanded
                   \/ /\ last'.thrown = NoError
                      /\ n = nodes[Root].children[2]
                      /\ nodes'[n].expanded
          /\ MissingRangeRejected]_vars

----------------------------------------------------------------------------
(* The update flag around a filter call *)

\* the step is a filterNodes, filterBranches or clearFilter call that
\* returned normally
FilterCallReturns ==
    last'.op \in {"applyFilter", "clearFilter"} /\ last'.thrown = NoError

\* the step is an enableUpdate(flag) call that returned normally
EnableUpdateReturns == last'.op = "enableUpdate" /\ last'.thrown = NoError

\* the step ran no viewport pass: no row index and no content height was
\* written
NoViewportPass ==
    /\ tree'.height = tree.height
    /\ Len(nodes') = Len(nodes)
    /\ \A n \in NodeIds(nodes) : nodes'[n].rowIdx = nodes[n].rowIdx

\* C32: after applyFilter or clearFilter returns normally, by the empty-text
\* shortcut or a full pass, inside a suspended section or not, the update
\* flag and the autoCollapse option have the values they had before the
\* call; enableUpdate(flag) returns the value the flag had before the call
\* and runs a viewport pass only when it turns the updates from disabled to
\* enabled, so a filter call inside a suspended section renders nothing of
\* its own: no viewport pass and no row surface.
C32_NestedCallRendersNothing ==
    [][/\ FilterCallReturns =>
              /\ tree'.enableUpdate = tree.enableUpdate
              /\ tree'.autoCollapse = tree.autoCollapse
              /\ ~tree.enableUpdate =>
                     NoViewportPass /\ Surfaces(nodes') = Surfaces(nodes)
       /\ EnableUpdateReturns =>
              /\ last'.ret = BoolStr(tree.enableUpdate)
              /\ tree'.enableUpdate = last'.flag
              /\ ~(~tree.enableUpdate /\ last'.flag) =>
                     NoViewportPass /\ nodes' = nodes]_vars

\* what the code keeps of it: the flag and the option are restored,
\* enableUpdate returns the previous value, and a filter call inside a
\* suspended section runs no viewport pass; the row surfaces it draws come
\* from setExpanded, which does not look at the flag
C32_UpdateFlagRestored ==
    [][/\ FilterCallReturns =>
              /\ tree'.enableUpdate = tree.enableUpdate
              /\ tree'.autoCollapse = tree.autoCollapse
              /\ ~tree.enableUpdate => NoViewportPass
       /\ EnableUpdateReturns =>
              /\ last'.ret = BoolStr(tree.enableUpdate)
              /\ tree'.enableUpdate = last'.flag
              /\ ~(~tree.enableUpdate /\ last'.flag) =>
                     NoViewportPass /\ nodes' = nodes]_vars

\* a full filter pass that found matches returned inside a suspended
\* section of a tree with autoCollapse on, and left both as they were
C32_Witness ==
    /\ last.op = "applyFilter"
    /\ ~EmptyText(last.filter)
    /\ last.thrown = NoError
    /\ last.count > 0
    /\ ~last.pre.enableUpdate
    /\ ~tree.enableUpdate
    /\ tree.autoCollapse

\* the empty-text shortcut returned while a filter was active and the
\* updates were enabled
C32_WitnessShortcut ==
    /\ last.op = "applyFilter"
    /\ EmptyText(last.filter)
    /\ last.thrown = NoError
    /\ last.pre.filterMode # "null"
    /\ last.pre.enableUpdate
    /\ tree.enableUpdate

====
